---------------------------- MODULE Spec2Model ----------------------------
(***************************************************************************)
(* next-strip: page analysis (html-analyzer), script stripping             *)
(* (script-stripper), output generation (output-generator) and the         *)
(* dehydrate pipeline (index), as state machines over a small file system. *)
(*                                                                         *)
(* Text is a sequence of tokens.  A regular expression of the source is a  *)
(* pattern over tokens, and pattern.test(text) is a search of the text.    *)
(***************************************************************************)
EXTENDS Naturals, Sequences, FiniteSets, TLC

VARIABLES
    srcFiles,        \* source tree: path -> [ok, text]; ok is whether a read succeeds
    htmlFiles,       \* generated documents: path -> [ok, rw, markup]
    pages,           \* generatedPages: sequence of [html, sourceJsx]
    phase,           \* position of dehydrate()
    current,         \* locals of the analyzeGeneratedPage call in progress
    visited,         \* the visited set of the crawl in progress
    stack,           \* active checkClientCodeRecursive calls, innermost last
    ret,             \* value being returned between recursion levels
    analyses,        \* analyses: PageAnalysis[]
    tasks,           \* one processAndWriteHtml promise per analysis
    processedPages,  \* what generateOutput resolved with
    thrown,          \* the error dehydrate() rejected with
    run,             \* which invocation of dehydrate() on this directory this is
    stats,           \* the DehydrateStats the last dehydrate() resolved with
    cpArgs,          \* arguments of a direct classifyPage call
    cpResult,        \* its result
    links,           \* navigation helper: the anchors of the document it runs in
    keys,            \* modifier keys held while the user clicks
    click,           \* what became of the last click event
    cache,           \* cache: url -> body stored for it
    currentController, \* the navigate call whose AbortController it holds, 0 for null
    navs,            \* the navigate calls so far, with their signal and promise chain
    observer,        \* the idle-time IntersectionObserver and what it observes
    prefetches,      \* urls whose prefetch is in flight
    shown,           \* what document.body shows
    rendered,        \* the navigate calls that reached updatePage, in order
    history,         \* urls pushed with history.pushState
    style,           \* document.body.style.opacity
    location         \* where a full page load went, NoUrl while the page lives

fsVars    == <<srcFiles, htmlFiles, pages>>
crawlVars == <<current, visited, stack, ret>>
runVars   == <<phase, analyses, tasks, processedPages, thrown, run, stats>>
cpVars    == <<cpArgs, cpResult>>
helperVars == <<links, keys, click, cache, currentController, navs, observer,
                prefetches, shown, rendered, history, style, location>>
vars      == <<fsVars, crawlVars, runVars, cpVars, helperVars>>

(***************************************************************************)
(* Bounds of the model.                                                    *)
(***************************************************************************)
MaxCount == 1    \* scriptCount / preloadCount drawn for a direct classifyPage call
MaxEdges == 3    \* import statements in the whole source tree
MaxNodes == 2    \* script, link, comment and other nodes in one document
MaxPages == 2    \* pages in one run
MaxRuns  == 2    \* invocations of dehydrate() on the same build directory
MaxElapsed == 1  \* milliseconds between startTime and the end of a run

(***************************************************************************)
(* Source text.  A token is one lexical item of a source file: a word of   *)
(* code with the character before it (pre: "nl" a line break, "sp" any     *)
(* other non-word character), or an import statement with its binding and  *)
(* its module specifier.  A specifier is its "/"-separated segments:       *)
(* "./A" is <<".", "A">>, "@/app/B" is <<"@", "app", "B">>.                *)
(***************************************************************************)
NoSpecifier == <<>>

Code(pre, word) == [kind |-> "code", pre |-> pre, word |-> word, from |-> NoSpecifier]

ImportStmt(binding, specifier) ==
    [kind |-> "import", pre |-> "sp", word |-> binding, from |-> specifier]

\* A regular expression over tokens: a word (optionally required to follow a
\* line break, "\n" in the expression) or an import of a binding from a module.
WordRe(word) == [re |-> "word", bol |-> FALSE, words |-> {word}, from |-> NoSpecifier]
LineRe(word) == [re |-> "word", bol |-> TRUE, words |-> {word}, from |-> NoSpecifier]
ImportRe(bindings, specifier) ==
    [re |-> "import", bol |-> FALSE, words |-> bindings, from |-> specifier]

\* pattern.test(content)
Test(pattern, content) ==
    \E i \in DOMAIN content :
        /\ content[i].word \in pattern.words
        /\ pattern.bol => content[i].pre = "nl"
        /\ pattern.re = "import" =>
              content[i].kind = "import" /\ content[i].from = pattern.from

\* patterns.some((pattern) => pattern.test(content))
Some(patterns, content) == \E i \in DOMAIN patterns : Test(patterns[i], content)

EVENT_HANDLER_PROPS ==
    << WordRe("onClick="), WordRe("onChange="), WordRe("onSubmit="),
       WordRe("onKeyDown="), WordRe("onKeyUp="), WordRe("onKeyPress="),
       WordRe("onFocus="), WordRe("onBlur="), WordRe("onInput="),
       WordRe("onMouseOver="), WordRe("onMouseOut="), WordRe("onMouseDown="),
       WordRe("onMouseUp="), WordRe("onTouchStart="), WordRe("onTouchEnd="),
       LineRe("onTouchMove="),
       WordRe("onDragStart="), WordRe("onDragEnd="), WordRe("onDrop=") >>

REACT_HOOK_PATTERNS ==
    << WordRe("useState"), WordRe("useEffect"), WordRe("useCallback"),
       WordRe("useMemo"), WordRe("useRef"), WordRe("useContext"),
       WordRe("useReducer"), WordRe("useLayoutEffect"),
       WordRe("useImperativeHandle"), WordRe("useDebugValue"), WordRe("useId"),
       WordRe("useSyncExternalStore"), WordRe("useTransition"),
       WordRe("useDeferredValue") >>

NextLink == <<"next", "link">>

NEXT_LINK_PATTERNS ==
    << ImportRe({"Link", "{ Link }"}, NextLink),
       ImportRe({"{ Link }", "{ Link, useRouter }"}, NextLink),
       WordRe("<Link "), WordRe("<Link>") >>

CLIENT_COMPONENT_PATTERNS == << WordRe("\"use client\""), WordRe("'use client'") >>

FILE_EXTENSIONS == << ".tsx", ".ts", ".jsx", ".js" >>

detectEventHandlers(content) == Some(EVENT_HANDLER_PROPS, content)

detectReactHooks(content) == Some(REACT_HOOK_PATTERNS, content)

detectClientComponents(content) == Some(CLIENT_COMPONENT_PATTERNS, content)

detectClientSideRouting(content) == Some(NEXT_LINK_PATTERNS, content)

(***************************************************************************)
(* Paths.  A directory is its sequence of segments; a file is a directory  *)
(* and a name, the name split into base and extension.                     *)
(***************************************************************************)
File(dir, base, ext) == [dir |-> dir, base |-> base, ext |-> ext]

\* The null a function returns instead of a path.
null == File(<<>>, "", "")

dirname(path) == path.dir

RECURSIVE Normalize(_, _)
\* path.join's normalisation: "." is dropped and ".." removes a segment
Normalize(done, rest) ==
    IF rest = <<>> THEN done
    ELSE IF Head(rest) = "." THEN Normalize(done, Tail(rest))
    ELSE IF Head(rest) = ".." THEN
        Normalize(IF done = <<>> THEN done ELSE SubSeq(done, 1, Len(done) - 1),
                  Tail(rest))
    ELSE Normalize(Append(done, Head(rest)), Tail(rest))

join(dir, segments) == Normalize(<<>>, dir \o segments)

existsSync(path) == path \in DOMAIN srcFiles

\* importPath.startsWith("./") || startsWith("../") || startsWith("@/")
IsLocalSpecifier(importPath) ==
    /\ Len(importPath) > 1
    /\ importPath[1] \in {".", "..", "@"}

\* The module specifiers of the import statements of a text, in text order,
\* local ones only.
extractLocalImports(content) ==
    LET stmts == SelectSeq(content,
                     LAMBDA t : t.kind = "import" /\ IsLocalSpecifier(t.from))
    IN  [i \in DOMAIN stmts |-> stmts[i].from]

\* The first of the candidate paths that exists, in order; null if none does.
FirstExisting(candidates) ==
    IF \E i \in DOMAIN candidates : existsSync(candidates[i])
    THEN candidates[CHOOSE i \in DOMAIN candidates :
                        /\ existsSync(candidates[i])
                        /\ \A j \in 1..(i - 1) : ~existsSync(candidates[j])]
    ELSE null

\* resolveImportPath trying the directory index before the file
resolveImportPath_IndexFirst(baseDir, importPath, sourceRootDir) ==
    LET jsxPath == IF importPath[1] = "@"
                   THEN join(sourceRootDir, Tail(importPath))
                   ELSE join(baseDir, importPath)
        parent  == SubSeq(jsxPath, 1, Len(jsxPath) - 1)
        last    == jsxPath[Len(jsxPath)]
        withExt   == [i \in DOMAIN FILE_EXTENSIONS |-> File(parent, last, FILE_EXTENSIONS[i])]
        indexPath == [i \in DOMAIN FILE_EXTENSIONS |-> File(jsxPath, "index", FILE_EXTENSIONS[i])]
    IN  IF jsxPath = <<>> THEN null
        ELSE IF FirstExisting(indexPath) # null THEN FirstExisting(indexPath)
        ELSE FirstExisting(withExt)

resolveImportPath(baseDir, importPath, sourceRootDir) ==
    LET jsxPath == IF importPath[1] = "@"
                   THEN join(sourceRootDir, Tail(importPath))
                   ELSE join(baseDir, importPath)
        parent  == SubSeq(jsxPath, 1, Len(jsxPath) - 1)
        last    == jsxPath[Len(jsxPath)]
        withExt   == [i \in DOMAIN FILE_EXTENSIONS |-> File(parent, last, FILE_EXTENSIONS[i])]
        indexPath == [i \in DOMAIN FILE_EXTENSIONS |-> File(jsxPath, "index", FILE_EXTENSIONS[i])]
    IN  IF jsxPath = <<>> THEN null
        ELSE IF FirstExisting(withExt) # null THEN FirstExisting(withExt)
        ELSE FirstExisting(indexPath)

(***************************************************************************)
(* Classification.                                                         *)
(***************************************************************************)
PURE_STATIC  == "PURE_STATIC"
ROUTING_ONLY == "ROUTING_ONLY"
INTERACTIVE  == "INTERACTIVE"

PageClassification == {PURE_STATIC, ROUTING_ONLY, INTERACTIVE}

\* classifyPage with the navigation test made before the interactivity test
classifyPage_RoutingFirst(indicators, hasClientCode) ==
    IF indicators.hasClientSideRouting
    THEN ROUTING_ONLY
    ELSE IF \/ hasClientCode
            \/ indicators.hasEventHandlers
            \/ indicators.usesReactHooks
            \/ indicators.hasClientComponents
    THEN INTERACTIVE
    ELSE PURE_STATIC

\* classifyPage also looking at the scripts counted in the HTML document
classifyPage_ScriptsMatter(indicators, hasClientCode) ==
    IF \/ hasClientCode
       \/ indicators.hasEventHandlers
       \/ indicators.usesReactHooks
       \/ indicators.hasClientComponents
       \/ indicators.scriptCount > 0
    THEN INTERACTIVE
    ELSE IF indicators.hasClientSideRouting
    THEN ROUTING_ONLY
    ELSE PURE_STATIC

classifyPage(indicators, hasClientCode) ==
    IF \/ hasClientCode
       \/ indicators.hasEventHandlers
       \/ indicators.usesReactHooks
       \/ indicators.hasClientComponents
    THEN INTERACTIVE
    ELSE IF indicators.hasClientSideRouting
    THEN ROUTING_ONLY
    ELSE PURE_STATIC

(***************************************************************************)
(* Documents.  The markup of an HTML file is its element nodes in document *)
(* order, split into head and body, and whether the bytes are already in   *)
(* the form the parser's serializer writes (canonical).  An attribute value*)
(* and an inline body are token sequences; Undefined is a missing          *)
(* attribute.                                                              *)
(***************************************************************************)
Undefined == << "<undefined>" >>

Node(tag, src, type, rel, as, href, body) ==
    [tag |-> tag, src |-> src, type |-> type, rel |-> rel, as |-> as,
     href |-> href, body |-> body]

Markup(canonical, head, body) == [canonical |-> canonical, head |-> head, body |-> body]

AllNodes(doc) == doc.head \o doc.body

\* stats.size: one unit per node, one more for markup the serializer would rewrite
Size(markup) == Len(markup.head) + Len(markup.body) + (IF markup.canonical THEN 0 ELSE 1)

\* (htmlContent.match(/<script/g) || []).length
scriptCount(htmlContent) ==
    Len(SelectSeq(AllNodes(htmlContent), LAMBDA n : n.tag = "script"))

\* (htmlContent.match(/rel=["'](?:preload|modulepreload)["']/g) || []).length
preloadCount(htmlContent) ==
    Len(SelectSeq(AllNodes(htmlContent),
                  LAMBDA n : n.rel \in {<<"preload">>, <<"modulepreload">>}))

detectIndicators(srcContent, htmlContent) ==
    [hasEventHandlers     |-> detectEventHandlers(srcContent),
     usesReactHooks       |-> detectReactHooks(srcContent),
     hasClientComponents  |-> detectClientComponents(srcContent),
     hasClientSideRouting |-> detectClientSideRouting(srcContent),
     scriptCount          |-> scriptCount(htmlContent),
     preloadCount         |-> preloadCount(htmlContent)]

(***************************************************************************)
(* The entry-only variant of the analyzer: its own handler catalog, and a  *)
(* classifyPage that reads the entry file's indicators alone.  Its crawl   *)
(* keeps no visited set and only fills indicators.hasClientComponents.     *)
(***************************************************************************)
EntryOnly_EVENT_HANDLER_PROPS ==
    << WordRe("onClick="), WordRe("onChange="), WordRe("onSubmit="),
       WordRe("onKeyDown="), WordRe("onKeyUp="), WordRe("onKeyPress="),
       WordRe("onFocus="), WordRe("onBlur="), WordRe("onInput="),
       WordRe("onMouseOver="), WordRe("onMouseOut="), WordRe("onMouseDown="),
       WordRe("onMouseUp="), WordRe("onTouchStart="), WordRe("onTouchEnd="),
       WordRe("onTouchMove="),
       WordRe("onDragStart="), WordRe("onDragEnd="), WordRe("onDrop=") >>

EntryOnly_detectIndicators(srcContent, htmlContent) ==
    [hasEventHandlers     |-> Some(EntryOnly_EVENT_HANDLER_PROPS, srcContent),
     usesReactHooks       |-> Some(REACT_HOOK_PATTERNS, srcContent),
     hasClientComponents  |-> Some(CLIENT_COMPONENT_PATTERNS, srcContent),
     hasClientSideRouting |-> Some(NEXT_LINK_PATTERNS, srcContent),
     scriptCount          |-> scriptCount(htmlContent),
     preloadCount         |-> preloadCount(htmlContent)]

EntryOnly_classifyPage(indicators) ==
    IF \/ indicators.hasEventHandlers
       \/ indicators.usesReactHooks
       \/ indicators.hasClientComponents
    THEN INTERACTIVE
    ELSE IF indicators.hasClientSideRouting
    THEN ROUTING_ONLY
    ELSE PURE_STATIC

(***************************************************************************)
(* The project of a run.                                                   *)
(***************************************************************************)
sourceRootDir == << "src" >>
routesDir     == << "src", "app" >>
htmlDir       == << "out" >>

(***************************************************************************)
(* analyzeGeneratedPage and the crawl of a page's imports.                 *)
(*                                                                         *)
(* A frame is one active call of checkClientCodeRecursive that is inside   *)
(* its import loop: the path, the extracted imports and the index of the   *)
(* import the loop is at.  ret is "none" while a call runs and "true" or   *)
(* "false" while a value is on its way to the caller.                      *)
(***************************************************************************)
Idle == [pc |-> "idle", page |-> 0, srcContent |-> <<>>,
         htmlContent |-> Markup(TRUE, <<>>, <<>>), size |-> 0]

Frame(jsxPath, imports) == [jsxPath |-> jsxPath, imports |-> imports, i |-> 1]

Top == stack[Len(stack)]

Pop(stk) == SubSeq(stk, 1, Len(stk) - 1)

\* The loop of the innermost call moves on to its next import.
Advance(stk) ==
    [stk EXCEPT ![Len(stk)] = [@ EXCEPT !.i = @ + 1]]

\* the lines of checkClientCodeRecursive before its import loop
HasClientCode(jsxContent) ==
    \/ detectClientComponents(jsxContent)
    \/ detectReactHooks(jsxContent)
    \/ detectEventHandlers(jsxContent)

\* Enter answering true for a module it has already visited
Enter_VisitedIsHit(jsxPath, jsxContent, vis, stk) ==
    IF jsxPath \in vis
    THEN [visited |-> vis, stack |-> stk, ret |-> "true"]
    ELSE IF HasClientCode(jsxContent)
    THEN [visited |-> vis \cup {jsxPath}, stack |-> stk, ret |-> "true"]
    ELSE [visited |-> vis \cup {jsxPath},
          stack   |-> Append(stk, Frame(jsxPath, extractLocalImports(jsxContent))),
          ret     |-> "none"]

\* Enter inspecting and expanding a module again on a later arrival
Enter_Revisit(jsxPath, jsxContent, vis, stk) ==
    IF HasClientCode(jsxContent)
    THEN [visited |-> vis \cup {jsxPath}, stack |-> stk, ret |-> "true"]
    ELSE [visited |-> vis \cup {jsxPath},
          stack   |-> Append(stk, Frame(jsxPath, extractLocalImports(jsxContent))),
          ret     |-> "none"]

\* A call checkClientCodeRecursive(jsxPath, jsxContent, _, visited) up to its
\* first await: the visited set, the stack and the returned value after it.
Enter(jsxPath, jsxContent, vis, stk) ==
    IF jsxPath \in vis
    THEN [visited |-> vis, stack |-> stk, ret |-> "false"]
    ELSE IF HasClientCode(jsxContent)
    THEN [visited |-> vis \cup {jsxPath}, stack |-> stk, ret |-> "true"]
    ELSE [visited |-> vis \cup {jsxPath},
          stack   |-> Append(stk, Frame(jsxPath, extractLocalImports(jsxContent))),
          ret     |-> "none"]

\* The import the innermost call is at, resolved.
Resolved ==
    resolveImportPath(dirname(Top.jsxPath), Top.imports[Top.i], sourceRootDir)

InLoop ==
    /\ current.pc = "crawl"
    /\ stack # <<>>
    /\ ret = "none"
    /\ Top.i <= Len(Top.imports)

\* analyzeGeneratedPage: both reads and the stat succeed, and the crawl starts
\* at the entry file with a fresh visited set.
AnalyzeStart ==
    /\ phase = "analyze"
    /\ current.pc = "idle"
    /\ Len(analyses) < Len(pages)
    /\ LET k    == Len(analyses) + 1
           page == pages[k]
       IN  /\ existsSync(page.sourceJsx) /\ srcFiles[page.sourceJsx].ok
           /\ htmlFiles[page.html].ok
           /\ LET srcContent == srcFiles[page.sourceJsx].text
                  call == Enter(page.sourceJsx, srcContent, {}, <<>>)
              IN  /\ current' = [pc |-> "crawl", page |-> k,
                                 srcContent  |-> srcContent,
                                 htmlContent |-> htmlFiles[page.html].markup,
                                 size        |-> Size(htmlFiles[page.html].markup)]
                  /\ visited' = call.visited
                  /\ stack' = call.stack
                  /\ ret' = call.ret
    /\ UNCHANGED <<fsVars, runVars, cpVars, helperVars>>

\* analyzeGeneratedPage rejects at one of its reads; the loop of analyzePages
\* is left through its catch, which rethrows, and dehydrate() rejects.
AnalyzeThrow ==
    /\ phase = "analyze"
    /\ current.pc = "idle"
    /\ Len(analyses) < Len(pages)
    /\ LET page == pages[Len(analyses) + 1]
       IN  ~(existsSync(page.sourceJsx) /\ srcFiles[page.sourceJsx].ok /\ htmlFiles[page.html].ok)
    /\ phase' = "failed"
    /\ thrown' = "Page analysis failed"
    /\ UNCHANGED <<stats, analyses, tasks, processedPages, run, fsVars, crawlVars, cpVars, helperVars>>

\* if (!resolvedPath || !existsSync(resolvedPath)) continue;
CrawlSkipUnresolved ==
    /\ InLoop
    /\ ~(Resolved # null /\ existsSync(Resolved))
    /\ stack' = Advance(stack)
    /\ UNCHANGED <<current, visited, ret, fsVars, runVars, cpVars, helperVars>>

\* CrawlReadFailed with the failed read ending the importer's loop
CrawlReadFailed_Abort ==
    /\ InLoop
    /\ Resolved # null /\ existsSync(Resolved)
    /\ ~srcFiles[Resolved].ok
    /\ stack' = Pop(stack)
    /\ ret' = "false"
    /\ UNCHANGED <<current, visited, fsVars, runVars, cpVars, helperVars>>

\* readFile rejects; the catch logs and the loop goes on
CrawlReadFailed ==
    /\ InLoop
    /\ Resolved # null /\ existsSync(Resolved)
    /\ ~srcFiles[Resolved].ok
    /\ stack' = Advance(stack)
    /\ UNCHANGED <<current, visited, ret, fsVars, runVars, cpVars, helperVars>>

\* readFile resolves and the recursive call is made
CrawlRecurse ==
    /\ InLoop
    /\ Resolved # null /\ existsSync(Resolved)
    /\ srcFiles[Resolved].ok
    /\ LET call == Enter(Resolved, srcFiles[Resolved].text, visited, stack)
       IN  /\ visited' = call.visited
           /\ stack' = call.stack
           /\ ret' = call.ret
    /\ UNCHANGED <<current, fsVars, runVars, cpVars, helperVars>>

\* CrawlReturnTrue dropping the hit and going on with the next import
CrawlReturnTrue_NextImport ==
    /\ current.pc = "crawl"
    /\ stack # <<>>
    /\ ret = "true"
    /\ stack' = Advance(stack)
    /\ ret' = "none"
    /\ UNCHANGED <<current, visited, fsVars, runVars, cpVars, helperVars>>

\* the awaited call returned true: return true
CrawlReturnTrue ==
    /\ current.pc = "crawl"
    /\ stack # <<>>
    /\ ret = "true"
    /\ stack' = Pop(stack)
    /\ UNCHANGED <<current, visited, ret, fsVars, runVars, cpVars, helperVars>>

\* the awaited call returned false: next import
CrawlContinue ==
    /\ current.pc = "crawl"
    /\ stack # <<>>
    /\ ret = "false"
    /\ stack' = Advance(stack)
    /\ ret' = "none"
    /\ UNCHANGED <<current, visited, fsVars, runVars, cpVars, helperVars>>

\* the loop is over: return false
CrawlReturnFalse ==
    /\ current.pc = "crawl"
    /\ stack # <<>>
    /\ ret = "none"
    /\ Top.i > Len(Top.imports)
    /\ stack' = Pop(stack)
    /\ ret' = "false"
    /\ UNCHANGED <<current, visited, fsVars, runVars, cpVars, helperVars>>

\* AnalyzeFinish taking the navigation signal from every crawled module
AnalyzeFinish_ClosureNavigation ==
    /\ current.pc = "crawl"
    /\ stack = <<>>
    /\ ret # "none"
    /\ LET hasClientCode  == (ret = "true")
           indicators     == [detectIndicators(current.srcContent, current.htmlContent) EXCEPT
                                 !.hasClientSideRouting =
                                     \E path \in visited :
                                         detectClientSideRouting(srcFiles[path].text)]
           classification == classifyPage(indicators, hasClientCode)
       IN  analyses' = Append(analyses,
               [absolutePath   |-> pages[current.page].html,
                classification |-> classification,
                indicators     |-> [indicators EXCEPT !.hasClientComponents = hasClientCode],
                originalSize   |-> current.size])
    /\ current' = Idle
    /\ visited' = {}
    /\ ret' = "none"
    /\ UNCHANGED <<stats, stack, fsVars, phase, tasks, processedPages, thrown, run, cpVars, helperVars>>

\* AnalyzeFinish reporting the entry file's own client-marker flag
AnalyzeFinish_EntryFlag ==
    /\ current.pc = "crawl"
    /\ stack = <<>>
    /\ ret # "none"
    /\ LET hasClientCode  == (ret = "true")
           indicators     == detectIndicators(current.srcContent, current.htmlContent)
           classification == classifyPage(indicators, hasClientCode)
       IN  analyses' = Append(analyses,
               [absolutePath   |-> pages[current.page].html,
                classification |-> classification,
                indicators     |-> indicators,
                originalSize   |-> current.size])
    /\ current' = Idle
    /\ visited' = {}
    /\ ret' = "none"
    /\ UNCHANGED <<stats, stack, fsVars, phase, tasks, processedPages, thrown, run, cpVars, helperVars>>

\* hasAnyClientCode returned: detectIndicators, classifyPage, and the
\* PageAnalysis is pushed.
AnalyzeFinish ==
    /\ current.pc = "crawl"
    /\ stack = <<>>
    /\ ret # "none"
    /\ LET hasClientCode  == (ret = "true")
           indicators     == detectIndicators(current.srcContent, current.htmlContent)
           classification == classifyPage(indicators, hasClientCode)
       IN  analyses' = Append(analyses,
               [absolutePath   |-> pages[current.page].html,
                classification |-> classification,
                indicators     |-> [indicators EXCEPT !.hasClientComponents = hasClientCode],
                originalSize   |-> current.size])
    /\ current' = Idle
    /\ visited' = {}
    /\ ret' = "none"
    /\ UNCHANGED <<stats, stack, fsVars, phase, tasks, processedPages, thrown, run, cpVars, helperVars>>

(***************************************************************************)
(* script-stripper: the transformation of one document.                    *)
(***************************************************************************)
NEXTJS_SCRIPT_PATTERNS == << "_next/static/", "__NEXT_DATA__", "self.__next_f", "next/dist/" >>

\* value ?? ""
OrEmpty(value) == IF value = Undefined THEN <<>> ELSE value

\* load(content): the parsed document
load(content) == [head |-> content.head, body |-> content.body]

\* $.html(): the serializer's markup of a parsed document
html(dom) == Markup(TRUE, dom.head, dom.body)

\* isNextJsScript with every non-empty URL or body taken for a framework one
isNextJsScript_AnyScript(src) == src # <<>>

isNextJsScript(src) ==
    IF src = <<>> THEN FALSE
    ELSE \E i \in DOMAIN NEXTJS_SCRIPT_PATTERNS :
            \E j \in DOMAIN src : src[j] = NEXTJS_SCRIPT_PATTERNS[i]

\* shouldPreserveInlineScript with no type preserved
shouldPreserveInlineScript_Never(type) == FALSE

\* shouldPreserveInlineScript keeping structured data only
shouldPreserveInlineScript_OnlyLdJson(type) == type = <<"application/ld+json">>

shouldPreserveInlineScript(type) ==
    IF type = <<>> THEN FALSE
    ELSE IF type = <<"application/ld+json">> THEN TRUE
    ELSE IF type = <<"text/javascript">> \/ type = <<"module">> THEN FALSE
    ELSE TRUE

\* $(selector).each(el => { if (...) { $(el).remove(); count++ } }): the
\* document without the elements of `removed`, and how many were removed
RemoveEach(dom, removed) ==
    LET keep(n) == n \notin removed
        gone(n) == n \in removed
    IN  [dom   |-> [head |-> SelectSeq(dom.head, keep), body |-> SelectSeq(dom.body, keep)],
         count |-> Len(SelectSeq(dom.head, gone)) + Len(SelectSeq(dom.body, gone))]

\* the elements of the document, as a set
Elements(dom) == { AllNodes(dom)[i] : i \in DOMAIN AllNodes(dom) }

\* the elements each of the four passes selects
ExternalScripts(dom) == { n \in Elements(dom) : n.tag = "script" /\ n.src # Undefined }

InlineScripts(dom) == { n \in Elements(dom) : n.tag = "script" /\ n.src = Undefined }

ScriptPreloads(dom) ==
    { n \in Elements(dom) : /\ n.tag = "link"
                            /\ \/ n.rel = <<"preload">> /\ n.as = <<"script">>
                               \/ n.rel = <<"modulepreload">> }

ScriptPrefetches(dom) ==
    { n \in Elements(dom) : n.tag = "link" /\ n.rel = <<"prefetch">> /\ n.as = <<"script">> }

\* stripAllScripts with the two link passes left out
stripAllScripts_ScriptsOnly(dom) ==
    LET p1 == RemoveEach(dom, {n \in ExternalScripts(dom) : isNextJsScript(OrEmpty(n.src))})
        p2 == RemoveEach(p1.dom,
                  {n \in InlineScripts(p1.dom) :
                      /\ ~shouldPreserveInlineScript(OrEmpty(n.type))
                      /\ isNextJsScript(OrEmpty(n.body))})
    IN  [html |-> html(p2.dom), scriptsRemoved |-> p1.count + p2.count,
         preloadsRemoved |-> 0]

stripAllScripts(dom) ==
    LET p1 == RemoveEach(dom, {n \in ExternalScripts(dom) : isNextJsScript(OrEmpty(n.src))})
        p2 == RemoveEach(p1.dom,
                  {n \in InlineScripts(p1.dom) :
                      /\ ~shouldPreserveInlineScript(OrEmpty(n.type))
                      /\ isNextJsScript(OrEmpty(n.body))})
        p3 == RemoveEach(p2.dom,
                  {n \in ScriptPreloads(p2.dom) : isNextJsScript(OrEmpty(n.href))})
        p4 == RemoveEach(p3.dom,
                  {n \in ScriptPrefetches(p3.dom) : isNextJsScript(OrEmpty(n.href))})
    IN  [html            |-> html(p4.dom),
         scriptsRemoved  |-> p1.count + p2.count,
         preloadsRemoved |-> p3.count + p4.count]

\* processHtmlFile after its read: content is what readFile resolved with
processHtmlFile(classification, content) ==
    IF classification = INTERACTIVE
    THEN [html |-> html(load(content)), scriptsRemoved |-> 0, preloadsRemoved |-> 0]
    ELSE stripAllScripts(load(content))

\* the navigation helper, and the element that carries it
SPA_ROUTER_SCRIPT ==
    << "(function(){", "'use strict'", "var cache = {}", "function navigate(url, pushState)",
       "document.addEventListener('click', handleClick)", "})();" >>

getSpaRouterScript == SPA_ROUTER_SCRIPT

InlineScript(body) ==
    Node("script", Undefined, Undefined, Undefined, Undefined, Undefined, body)

\* getProcessedHtml with the helper put in for every classification
getProcessedHtml_AlwaysInject(classification, content, spaRouterScript) ==
    LET result == processHtmlFile(classification, content)
        dom    == load(result.html)
    IN  [html |-> html([dom EXCEPT !.body = Append(@, InlineScript(spaRouterScript))]),
         scriptsRemoved  |-> result.scriptsRemoved,
         preloadsRemoved |-> result.preloadsRemoved,
         routerInjected  |-> TRUE]

\* getProcessedHtml after the read of processHtmlFile
getProcessedHtml(classification, content, spaRouterScript) ==
    LET result == processHtmlFile(classification, content)
        dom    == load(result.html)
    IN  IF classification = ROUTING_ONLY /\ spaRouterScript # <<>>
        THEN [html |-> html([dom EXCEPT !.body = Append(@, InlineScript(spaRouterScript))]),
              scriptsRemoved  |-> result.scriptsRemoved,
              preloadsRemoved |-> result.preloadsRemoved,
              routerInjected  |-> TRUE]
        ELSE [html            |-> result.html,
              scriptsRemoved  |-> result.scriptsRemoved,
              preloadsRemoved |-> result.preloadsRemoved,
              routerInjected  |-> FALSE]

\* minify(html, MINIFY_OPTIONS): removeComments drops the comment nodes.  The
\* other options rewrite text inside an element (whitespace, inline CSS and
\* JS) and leave the elements, their attributes and their order as they are.
minify(markup) ==
    LET kept(n) == n.tag # "comment"
    IN  Markup(markup.canonical, SelectSeq(markup.head, kept), SelectSeq(markup.body, kept))

(***************************************************************************)
(* output-generator: generateOutput starts one processAndWriteHtml task    *)
(* per analysis and awaits them all.  A task is at the await named by its  *)
(* pc; "fulfilled" and "rejected" are the two ways its promise settles.    *)
(***************************************************************************)
NoResult == [html |-> Markup(TRUE, <<>>, <<>>), scriptsRemoved |-> 0,
             preloadsRemoved |-> 0, routerInjected |-> FALSE]

NewTask == [pc |-> "read", content |-> Markup(TRUE, <<>>, <<>>), result |-> NoResult,
            minifiedHtml |-> Markup(TRUE, <<>>, <<>>), newSize |-> 0]

PathOf(k) == analyses[k].absolutePath

\* StartProcessing not waiting for the last analysis
StartProcessing_Early ==
    /\ phase = "analyze"
    /\ current.pc = "idle"
    /\ analyses # << >>
    /\ phase' = "process"
    /\ tasks' = [k \in DOMAIN analyses |-> NewTask]
    /\ UNCHANGED <<stats, analyses, processedPages, thrown, run, fsVars, crawlVars, cpVars, helperVars>>

\* analyzePages returned and generateOutput maps the analyses to tasks
StartProcessing ==
    /\ phase = "analyze"
    /\ current.pc = "idle"
    /\ Len(analyses) = Len(pages)
    /\ phase' = "process"
    /\ tasks' = [k \in DOMAIN analyses |-> NewTask]
    /\ UNCHANGED <<stats, analyses, processedPages, thrown, run, fsVars, crawlVars, cpVars, helperVars>>

TaskAt(k, pc) ==
    /\ phase \in {"process", "failed"}
    /\ k \in DOMAIN tasks
    /\ tasks[k].pc = pc

\* getProcessedHtml: readFile resolved, the document is transformed
TaskRead(k) ==
    /\ TaskAt(k, "read")
    /\ htmlFiles[PathOf(k)].ok
    /\ LET content == htmlFiles[PathOf(k)].markup
       IN  tasks' = [tasks EXCEPT ![k] =
               [@ EXCEPT !.pc = "mkdir", !.content = content,
                         !.result = getProcessedHtml(analyses[k].classification,
                                                     content, getSpaRouterScript)]]
    /\ UNCHANGED <<stats, phase, analyses, processedPages, thrown, run, fsVars, crawlVars, cpVars, helperVars>>

\* mkdir(dirname(absolutePath), { recursive: true }): the directory exists
TaskMkdir(k) ==
    /\ TaskAt(k, "mkdir")
    /\ tasks' = [tasks EXCEPT ![k] = [@ EXCEPT !.pc = "minify"]]
    /\ UNCHANGED <<stats, phase, analyses, processedPages, thrown, run, fsVars, crawlVars, cpVars, helperVars>>

TaskMinify(k) ==
    /\ TaskAt(k, "minify")
    /\ tasks' = [tasks EXCEPT ![k] =
           [@ EXCEPT !.pc = "write", !.minifiedHtml = minify(tasks[k].result.html)]]
    /\ UNCHANGED <<stats, phase, analyses, processedPages, thrown, run, fsVars, crawlVars, cpVars, helperVars>>

\* writeFile(absolutePath, minifiedHtml)
TaskWrite(k) ==
    /\ TaskAt(k, "write")
    /\ htmlFiles[PathOf(k)].rw
    /\ htmlFiles' = [htmlFiles EXCEPT ![PathOf(k)] =
                        [@ EXCEPT !.markup = tasks[k].minifiedHtml]]
    /\ tasks' = [tasks EXCEPT ![k] = [@ EXCEPT !.pc = "stat"]]
    /\ UNCHANGED <<stats, srcFiles, pages, phase, analyses, processedPages, thrown, run,
                   crawlVars, cpVars, helperVars>>

\* writeFile rejects, and with it the task
TaskWriteFail(k) ==
    /\ TaskAt(k, "write")
    /\ ~htmlFiles[PathOf(k)].rw
    /\ tasks' = [tasks EXCEPT ![k] = [@ EXCEPT !.pc = "rejected"]]
    /\ UNCHANGED <<stats, phase, analyses, processedPages, thrown, run, fsVars, crawlVars, cpVars, helperVars>>

\* stat(absolutePath), and the ProcessedPage is returned
TaskStat(k) ==
    /\ TaskAt(k, "stat")
    /\ tasks' = [tasks EXCEPT ![k] =
           [@ EXCEPT !.pc = "fulfilled", !.newSize = Size(htmlFiles[PathOf(k)].markup)]]
    /\ UNCHANGED <<stats, phase, analyses, processedPages, thrown, run, fsVars, crawlVars, cpVars, helperVars>>

\* the ProcessedPage a fulfilled task resolved with
ProcessedPage(k) ==
    [analysis        |-> analyses[k],
     newSize         |-> tasks[k].newSize,
     scriptsRemoved  |-> tasks[k].result.scriptsRemoved,
     preloadsRemoved |-> tasks[k].result.preloadsRemoved,
     routerInjected  |-> tasks[k].result.routerInjected]

\* GenerateOutputResolve with the records in the reverse of the task order
GenerateOutputResolve_Reversed ==
    /\ phase = "process"
    /\ \A k \in DOMAIN tasks : tasks[k].pc = "fulfilled"
    /\ processedPages' = [k \in DOMAIN tasks |-> ProcessedPage(Len(tasks) + 1 - k)]
    /\ phase' = "router"
    /\ UNCHANGED <<stats, analyses, tasks, thrown, run, fsVars, crawlVars, cpVars, helperVars>>

\* Promise.all resolved: every task is fulfilled
GenerateOutputResolve ==
    /\ phase = "process"
    /\ \A k \in DOMAIN tasks : tasks[k].pc = "fulfilled"
    /\ processedPages' = [k \in DOMAIN tasks |-> ProcessedPage(k)]
    /\ phase' = "router"
    /\ UNCHANGED <<stats, analyses, tasks, thrown, run, fsVars, crawlVars, cpVars, helperVars>>

\* Promise.all rejected with the first rejection among the tasks; processPages
\* rethrows and dehydrate() rejects.  The tasks still pending are not awaited.
GenerateOutputReject ==
    /\ phase = "process"
    /\ \E k \in DOMAIN tasks : tasks[k].pc = "rejected"
    /\ phase' = "failed"
    /\ thrown' = "Processing failed"
    /\ UNCHANGED <<stats, analyses, tasks, processedPages, run, fsVars, crawlVars, cpVars, helperVars>>

\* writeSpaRouterFile, generateOutput returns and dehydrate goes on to the
\* statistics
WriteSpaRouterFile ==
    /\ phase = "router"
    /\ phase' = "stats"
    /\ UNCHANGED <<stats, analyses, tasks, processedPages, thrown, run, fsVars, crawlVars, cpVars, helperVars>>

\* what an edit adds to a module: a handler attribute in the middle of a
\* line, a hook call, a client directive
AddedSignals == { "onSubmit=", "onTouchMove=", "useEffect", "'use client'" }

\* A developer adds a line to a module that a page depends on, leaving its
\* imports as they are, and the tool is invoked again.
EditAndRunAgain ==
    /\ phase = "done"
    /\ run < MaxRuns
    /\ \E M \in DOMAIN srcFiles, word \in AddedSignals :
          /\ srcFiles[M].ok
          /\ srcFiles' = [srcFiles EXCEPT ![M] =
                             [@ EXCEPT !.text = Append(@, Code("sp", word))]]
    /\ run' = run + 1
    /\ phase' = "analyze"
    /\ analyses' = <<>>
    /\ tasks' = <<>>
    /\ processedPages' = <<>>
    /\ UNCHANGED <<stats, thrown, htmlFiles, pages, crawlVars, cpVars, helperVars>>

(***************************************************************************)
(* stats-reporter: calculateStats, a loop over the processed pages.        *)
(***************************************************************************)
ZeroStats ==
    [totalPages           |-> 0,
     byClassification     |-> [c \in PageClassification |-> 0],
     totalOriginalSize    |-> 0,
     totalNewSize         |-> 0,
     totalScriptsRemoved  |-> 0,
     totalPreloadsRemoved |-> 0,
     pagesWithRouter      |-> 0,
     processingTime       |-> 0,
     pages                |-> <<>>]

\* dehydrate() has not resolved
NoStats == ZeroStats

\* one iteration of the loop: the totals after page
AddPage(totals, page) ==
    [totals EXCEPT
        !.byClassification[page.analysis.classification] = @ + 1,
        !.totalOriginalSize    = @ + page.analysis.originalSize,
        !.totalNewSize         = @ + page.newSize,
        !.totalScriptsRemoved  = @ + page.scriptsRemoved,
        !.totalPreloadsRemoved = @ + page.preloadsRemoved,
        !.pagesWithRouter      = @ + (IF page.routerInjected THEN 1 ELSE 0)]

RECURSIVE Loop(_, _)
\* for (const page of pages) { ... } from the totals so far
Loop(totals, rest) ==
    IF rest = <<>> THEN totals ELSE Loop(AddPage(totals, Head(rest)), Tail(rest))

\* calculateStats that counts the router for every page
calculateStats_RouterEverywhere(processed, elapsed) ==
    [Loop(ZeroStats, processed) EXCEPT
        !.totalPages      = Len(processed),
        !.pagesWithRouter = Len(processed),
        !.processingTime  = elapsed,
        !.pages           = processed]

\* elapsed is endTime - startTime
calculateStats(processed, elapsed) ==
    [Loop(ZeroStats, processed) EXCEPT
        !.totalPages     = Len(processed),
        !.processingTime = elapsed,
        !.pages          = processed]

\* dehydrate: calculateStats(processedPages, startTime), and stats is returned
CalculateStats ==
    /\ phase = "stats"
    /\ \E elapsed \in 0..MaxElapsed :
          stats' = calculateStats(processedPages, elapsed)
    /\ phase' = "done"
    /\ UNCHANGED <<analyses, tasks, processedPages, thrown, run, fsVars, crawlVars, cpVars, helperVars>>

\* dehydrate() has returned, and the tool is invoked again on the directory
\* it has just optimized in place.
RunAgain ==
    /\ phase = "done"
    /\ run < MaxRuns
    /\ run' = run + 1
    /\ phase' = "analyze"
    /\ analyses' = <<>>
    /\ tasks' = <<>>
    /\ processedPages' = <<>>
    /\ UNCHANGED <<stats, thrown, fsVars, crawlVars, cpVars, helperVars>>

(***************************************************************************)
(* output-generator: findGeneratedPages.  The glob lists the documents     *)
(* under htmlDir in an order of its own; a document whose entry source is  *)
(* not found is filtered out.                                              *)
(***************************************************************************)
\* a document's path relative to htmlDir, as the glob returns it
Relative(htmlPath) ==
    File(SubSeq(htmlPath.dir, Len(htmlDir) + 1, Len(htmlPath.dir)),
         htmlPath.base, htmlPath.ext)

\* route: "" for index.html, the path without ".html" otherwise
RouteOf(htmlFile) ==
    IF htmlFile.dir = <<>> /\ htmlFile.base = "index"
    THEN <<>>
    ELSE htmlFile.dir \o << htmlFile.base >>

\* sourceCandidates of findSourceForHtml, in order
sourceCandidates(htmlFile) ==
    LET route == RouteOf(htmlFile)
        named == IF route = <<>> THEN << "index" >> ELSE route
        dir   == routesDir \o SubSeq(named, 1, Len(named) - 1)
        base  == named[Len(named)]
    IN  << File(dir, base, ".tsx"),
           File(dir, base, ".jsx"),
           File(routesDir \o route, "page", ".tsx"),
           File(routesDir \o route, "page", ".jsx") >>

\* findSourceForHtml answering with its first candidate, existing or not
findSourceForHtml_FirstCandidate(htmlFile) ==
    [html      |-> File(htmlDir \o htmlFile.dir, htmlFile.base, htmlFile.ext),
     sourceJsx |-> sourceCandidates(htmlFile)[1]]

\* sourceJsx is null where the code returns the empty string
findSourceForHtml(htmlFile) ==
    [html      |-> File(htmlDir \o htmlFile.dir, htmlFile.base, htmlFile.ext),
     sourceJsx |-> FirstExisting(sourceCandidates(htmlFile))]

\* the orders in which the glob may list the documents
GlobOrders ==
    { f \in [1..Cardinality(DOMAIN htmlFiles) -> DOMAIN htmlFiles] :
        \A i, j \in DOMAIN f : i # j => f[i] # f[j] }

findGeneratedPages(listing) ==
    SelectSeq([i \in DOMAIN listing |-> findSourceForHtml(Relative(listing[i]))],
              LAMBDA page : page.sourceJsx # null)

\* findPages of dehydrate: at least one page was found
FindPages ==
    /\ phase = "find"
    /\ \E listing \in GlobOrders :
          /\ findGeneratedPages(listing) # <<>>
          /\ pages' = findGeneratedPages(listing)
    /\ phase' = "analyze"
    /\ UNCHANGED <<stats, srcFiles, htmlFiles, analyses, tasks, processedPages, thrown, run,
                   crawlVars, cpVars, helperVars>>

\* findPages of dehydrate: no page was found, and dehydrate() rejects
FindThrow ==
    /\ phase = "find"
    /\ \E listing \in GlobOrders : findGeneratedPages(listing) = <<>>
    /\ phase' = "failed"
    /\ thrown' = "No HTML pages found"
    /\ UNCHANGED <<stats, analyses, tasks, processedPages, run, fsVars, crawlVars, cpVars, helperVars>>

(***************************************************************************)
(* The navigation helper (spa-router): the script appended to every        *)
(* ROUTING_ONLY page, running in the browser.  A url is its origin, its    *)
(* path and the extension the path ends with.  The body of a response is   *)
(* named by the url it came from and whether the response had ok status.   *)
(* The callbacks of one promise chain that run in the same microtask       *)
(* checkpoint are one step.                                                *)
(***************************************************************************)
MaxNavs == 3     \* navigate calls while one document is open

Origin == "https://site.example"      \* window.location.origin

Url(origin, path, ext) == [origin |-> origin, path |-> path, ext |-> ext]

NoUrl == Url("", "", "")

Home == Url(Origin, "", "")           \* window.location.href when the helper starts
UrlA == Url(Origin, "about", "")
UrlB == Url(Origin, "blog", "")
UrlHtml == Url(Origin, "docs", "html")

Urls == { Home, UrlA, UrlB, UrlHtml }

Body(url, ok) == [of |-> url, ok |-> ok]

NoEntry == Body(NoUrl, FALSE)         \* cache[url] of a url never stored

\* An anchor element: href is the resolved anchor.href (NoUrl when the element
\* has none), attr the characters of its href attribute.
Anchor(href, attr, download, target, rel) ==
    [href |-> href, attr |-> attr, download |-> download, target |-> target, rel |-> rel]

NoAnchor == Anchor(NoUrl, << "<null>" >>, FALSE, "", << >>)

NON_HTML_EXTENSIONS ==
    { "pdf", "zip", "png", "jpg", "jpeg", "gif", "svg", "webp", "mp4", "mp3", "wav" }

\* the i flag of the extension pattern
LowerCase(ext) ==
    CASE ext = "PDF" -> "pdf"
      [] ext = "Zip" -> "zip"
      [] OTHER -> ext

isInternal(url) == url.origin = Origin

\* shouldHandle that looks only at the origin: for the check of C28
shouldHandle_InternalOnly(anchor) ==
    anchor # NoAnchor /\ anchor.href # NoUrl /\ isInternal(anchor.href)

shouldHandle(anchor) ==
    IF anchor = NoAnchor \/ anchor.href = NoUrl THEN FALSE
    ELSE IF ~isInternal(anchor.href) THEN FALSE
    ELSE IF anchor.attr # << >> /\ anchor.attr[1] = "#" THEN FALSE
    ELSE IF anchor.download THEN FALSE
    ELSE IF anchor.target = "_blank" THEN FALSE
    ELSE IF \E i \in DOMAIN anchor.rel : anchor.rel[i] = "external" THEN FALSE
    ELSE IF LowerCase(anchor.href.ext) \in NON_HTML_EXTENSIONS THEN FALSE
    ELSE TRUE

\* the page is still the document the helper was loaded in
Alive == location = NoUrl

\* one navigate call: its arguments, its controller's signal, and where its
\* promise chain stands
Call(url, pushState, pc) == [url |-> url, pushState |-> pushState, aborted |-> FALSE, pc |-> pc]

updatePage(body, url, pushState, id) ==
    /\ shown' = body
    /\ rendered' = Append(rendered, id)
    /\ history' = IF pushState THEN Append(history, url) ELSE history

navigate(url, pushState) ==
    LET id == Len(navs) + 1
        signalled == [n \in DOMAIN navs |->
                         IF n = currentController
                         THEN [navs[n] EXCEPT !.aborted = TRUE]
                         ELSE navs[n]]
    IN  /\ currentController' = id
        /\ IF cache[url] # NoEntry
           THEN /\ navs' = Append(signalled, Call(url, pushState, "cached"))
                /\ updatePage(cache[url], url, pushState, id)
                /\ UNCHANGED <<cache, style>>
           ELSE /\ navs' = Append(signalled, Call(url, pushState, "fetch"))
                /\ style' = "0.7"
                /\ UNCHANGED <<cache, shown, rendered, history>>

\* the default action of a click the helper did not prevent replaces the
\* document unless it opens elsewhere, downloads, or only moves the hash
Leaves(anchor) ==
    /\ keys = {}
    /\ anchor # NoAnchor /\ anchor.href # NoUrl
    /\ ~(anchor.attr # << >> /\ anchor.attr[1] = "#")
    /\ ~anchor.download
    /\ anchor.target # "_blank"

HandleClick ==
    /\ Alive
    /\ Len(navs) < MaxNavs
    /\ \E anchor \in links \cup { NoAnchor } :
          IF \/ "ctrlKey" \in keys \/ "metaKey" \in keys
             \/ "shiftKey" \in keys \/ "altKey" \in keys
             \/ ~shouldHandle(anchor)
          THEN /\ click' = [target |-> anchor, defaultPrevented |-> FALSE]
               /\ location' = IF Leaves(anchor) THEN anchor.href ELSE location
               /\ UNCHANGED <<cache, currentController, navs, shown, rendered, history, style>>
          ELSE /\ click' = [target |-> anchor, defaultPrevented |-> TRUE]
               /\ navigate(anchor.href, TRUE)
               /\ UNCHANGED location
    /\ UNCHANGED <<links, keys, observer, prefetches, fsVars, crawlVars, runVars, cpVars>>

HandlePopState ==
    /\ Alive
    /\ Len(navs) < MaxNavs
    /\ \E url \in { Home } \cup { history[i] : i \in DOMAIN history } :
          navigate(url, FALSE)
    /\ UNCHANGED <<links, keys, click, observer, prefetches, location,
                   fsVars, crawlVars, runVars, cpVars>>

\* .catch without the AbortError test: for the check of C29
Settle_AlwaysFallsBack(n, err, pc) ==
    /\ navs' = [navs EXCEPT ![n].pc = pc]
    /\ location' = navs[n].url
    /\ style' = ""
    /\ currentController' = 0

\* .catch and .finally of a navigation
Settle(n, err, pc) ==
    /\ navs' = [navs EXCEPT ![n].pc = pc]
    /\ location' = IF err = "AbortError" THEN location ELSE navs[n].url
    /\ style' = ""
    /\ currentController' = 0

\* the fetch promise fulfils: the first .then
ResponseArrives(n) ==
    /\ Alive
    /\ n \in DOMAIN navs
    /\ navs[n].pc = "fetch" /\ ~navs[n].aborted
    /\ \E ok \in BOOLEAN :
          IF ok
          THEN /\ navs' = [navs EXCEPT ![n].pc = "text"]
               /\ UNCHANGED <<location, style, currentController>>
          ELSE Settle(n, "Error", "failed")
    /\ UNCHANGED <<links, keys, click, cache, observer, prefetches, shown, rendered, history,
                   fsVars, crawlVars, runVars, cpVars>>

\* response.text() fulfils: the second .then, then .finally
TextArrives(n) ==
    /\ Alive
    /\ n \in DOMAIN navs
    /\ navs[n].pc = "text" /\ ~navs[n].aborted
    /\ cache' = [cache EXCEPT ![navs[n].url] = Body(navs[n].url, TRUE)]
    /\ updatePage(Body(navs[n].url, TRUE), navs[n].url, navs[n].pushState, n)
    /\ navs' = [navs EXCEPT ![n].pc = "applied"]
    /\ style' = ""
    /\ currentController' = 0
    /\ UNCHANGED <<links, keys, click, observer, prefetches, location,
                   fsVars, crawlVars, runVars, cpVars>>

\* fetch or response.text() rejects with a network error
FetchRejects(n) ==
    /\ Alive
    /\ n \in DOMAIN navs
    /\ navs[n].pc \in { "fetch", "text" } /\ ~navs[n].aborted
    /\ Settle(n, "TypeError", "failed")
    /\ UNCHANGED <<links, keys, click, cache, observer, prefetches, shown, rendered, history,
                   fsVars, crawlVars, runVars, cpVars>>

\* fetch or response.text() rejects because the signal was aborted
AbortRejects(n) ==
    /\ Alive
    /\ n \in DOMAIN navs
    /\ navs[n].pc \in { "fetch", "text" } /\ navs[n].aborted
    /\ Settle(n, "AbortError", "aborted")
    /\ UNCHANGED <<links, keys, click, cache, observer, prefetches, shown, rendered, history,
                   fsVars, crawlVars, runVars, cpVars>>

\* requestIdleCallback: observe the links the helper would handle
IdleCallback ==
    /\ Alive
    /\ ~observer.started
    /\ observer' = [started |-> TRUE, targets |-> { a \in links : shouldHandle(a) }]
    /\ UNCHANGED <<links, keys, click, cache, currentController, navs, prefetches, shown,
                   rendered, history, style, location, fsVars, crawlVars, runVars, cpVars>>

\* the IntersectionObserver callback for one link that came into view
Intersecting(anchor) ==
    /\ Alive
    /\ anchor \in observer.targets
    /\ prefetches' = IF shouldHandle(anchor) /\ cache[anchor.href] = NoEntry
                     THEN prefetches \cup { anchor.href }
                     ELSE prefetches
    /\ observer' = [observer EXCEPT !.targets = @ \ { anchor }]
    /\ UNCHANGED <<links, keys, click, cache, currentController, navs, shown,
                   rendered, history, style, location, fsVars, crawlVars, runVars, cpVars>>

\* a prefetch fulfils: r.text() of whatever response came
PrefetchArrives(url) ==
    /\ Alive
    /\ url \in prefetches
    /\ \E ok \in BOOLEAN : cache' = [cache EXCEPT ![url] = Body(url, ok)]
    /\ prefetches' = prefetches \ { url }
    /\ UNCHANGED <<links, keys, click, currentController, navs, observer, shown,
                   rendered, history, style, location, fsVars, crawlVars, runVars, cpVars>>

\* a prefetch rejects: the empty .catch
PrefetchRejects(url) ==
    /\ Alive
    /\ url \in prefetches
    /\ prefetches' = prefetches \ { url }
    /\ UNCHANGED <<links, keys, click, cache, currentController, navs, observer, shown,
                   rendered, history, style, location, fsVars, crawlVars, runVars, cpVars>>

(***************************************************************************)
(* Valuations of the variables a specification does not use.               *)
(***************************************************************************)
NoFiles == [p \in {} |-> 0]

FsUnused == srcFiles = NoFiles /\ htmlFiles = NoFiles /\ pages = <<>>

CrawlUnused == current = Idle /\ visited = {} /\ stack = <<>> /\ ret = "none"

RunAt(p) ==
    /\ phase = p
    /\ analyses = <<>>
    /\ tasks = <<>>
    /\ processedPages = <<>>
    /\ thrown = "none"
    /\ run = 1
    /\ stats = NoStats

NoArgs == [hasClientCode |-> FALSE,
           indicators |-> detectIndicators(<<>>, Markup(TRUE, <<>>, <<>>))]

CpUnused == cpArgs = NoArgs /\ cpResult = "none"

\* no document with the navigation helper is open
HelperUnused ==
    /\ links = {} /\ keys = {}
    /\ click = [target |-> NoAnchor, defaultPrevented |-> FALSE]
    /\ cache = << >> /\ currentController = 0 /\ navs = << >>
    /\ observer = [started |-> FALSE, targets |-> {}] /\ prefetches = {}
    /\ shown = NoEntry /\ rendered = << >> /\ history = << >>
    /\ style = "" /\ location = NoUrl

(***************************************************************************)
(* SpecClassify: classifyPage called on every indicator record.            *)
(***************************************************************************)
PageIndicators ==
    [hasEventHandlers : BOOLEAN, usesReactHooks : BOOLEAN,
     hasClientComponents : BOOLEAN, hasClientSideRouting : BOOLEAN,
     scriptCount : 0..MaxCount, preloadCount : 0..MaxCount]

ClassifyInit ==
    /\ cpArgs \in [hasClientCode : BOOLEAN, indicators : PageIndicators]
    /\ cpResult = "none"
    /\ FsUnused /\ CrawlUnused /\ HelperUnused /\ RunAt("idle")

ClassifyCall ==
    /\ cpResult = "none"
    /\ cpResult' = classifyPage(cpArgs.indicators, cpArgs.hasClientCode)
    /\ UNCHANGED <<cpArgs, fsVars, crawlVars, runVars, helperVars>>

ClassifyNext == ClassifyCall

SpecClassify == ClassifyInit /\ [][ClassifyNext]_vars

(***************************************************************************)
(* SpecCrawl: the analysis of one page over every import graph of a small  *)
(* source tree.  The entry is src/app/page.tsx; A is src/app/A.tsx; B is   *)
(* the directory module src/app/B/index.ts.  Every file imports through a  *)
(* sequence of the specifiers below; what a specifier resolves to depends  *)
(* on the directory of the importing file.                                 *)
(***************************************************************************)
PageSrc   == File(routesDir, "page", ".tsx")
CompA     == File(routesDir, "A", ".tsx")
CompB     == File(routesDir \o <<"B">>, "index", ".ts")
IndexHtml == File(htmlDir, "index", ".html")

Specifiers == { <<".", "A">>, <<".", "page">>, <<"@", "app", "B">>, <<"..", "A">> }

PlainBody  == << Code("nl", "export"), Code("sp", "<div>") >>
ClientBody == << Code("nl", "\"use client\""), Code("sp", "<div>") >>
HooksBody  == << ImportStmt("{ useState }", <<"react">>), Code("sp", "useState") >>
EventsBody == << Code("sp", "<button"), Code("sp", "onClick=") >>
TouchBody  == << Code("nl", "<div"), Code("sp", "onTouchMove=") >>
LinkBody   == << ImportStmt("Link", NextLink), Code("sp", "<Link ") >>

Readable(text) == [ok |-> TRUE, text |-> text]
Unreadable     == [ok |-> FALSE, text |-> <<>>]

\* a file: its import statements, then its body
SourceText(imports, body) ==
    [i \in DOMAIN imports |-> ImportStmt("X", imports[i])] \o body

\* what the build wrote for a page: two framework scripts and a preload
BuiltDoc ==
    Markup(FALSE,
        << Node("link", Undefined, Undefined, <<"preload">>, <<"script">>,
                <<"/", "_next/static/", "main.js">>, <<>>) >>,
        << Node("script", <<"/", "_next/static/", "main.js">>, Undefined, Undefined,
                Undefined, Undefined, <<>>),
           Node("script", Undefined, Undefined, Undefined, Undefined, Undefined,
                <<"self.__next_f", ".push()">>) >>)

\* a document file that can be read and written
OnDisk(markup) == [ok |-> TRUE, rw |-> TRUE, markup |-> markup]

CrawlInit ==
    /\ \E la, lb, lc \in 0..MaxEdges :
         /\ la + lb + lc <= MaxEdges
         /\ \E ip \in [1..la -> Specifiers], ia \in [1..lb -> Specifiers],
               ib \in [1..lc -> Specifiers] :
            \E bp \in {PlainBody, LinkBody, HooksBody},
               fa \in {Readable(SourceText(ia, b)) :
                          b \in {PlainBody, ClientBody, EventsBody, TouchBody, LinkBody}}
                      \cup {Unreadable},
               fb \in {Readable(SourceText(ib, b)) :
                          b \in {PlainBody, HooksBody, EventsBody}}
                      \cup {Unreadable} :
               srcFiles = (PageSrc :> Readable(SourceText(ip, bp)))
                          @@ (CompA :> fa) @@ (CompB :> fb)
    /\ htmlFiles = (IndexHtml :> OnDisk(BuiltDoc))
    /\ pages = << [html |-> IndexHtml, sourceJsx |-> PageSrc] >>
    /\ CrawlUnused /\ HelperUnused /\ RunAt("analyze") /\ CpUnused

CrawlNext ==
    \/ AnalyzeStart
    \/ CrawlSkipUnresolved
    \/ CrawlReadFailed
    \/ CrawlRecurse
    \/ CrawlReturnTrue
    \/ CrawlContinue
    \/ CrawlReturnFalse
    \/ AnalyzeFinish

SpecCrawl == CrawlInit /\ [][CrawlNext]_vars

(***************************************************************************)
(* SpecTransform: one page, analysed, transformed and written, and the     *)
(* tool then run once more on its own output.  The entry file imports      *)
(* nothing; the document is every head and body of at most MaxNodes nodes  *)
(* out of the nodes below, in the build's own notation or not.             *)
(***************************************************************************)
FrameworkUrl == << "/", "_next/static/", "chunks/main.js" >>
OwnUrl       == << "/js/", "analytics.js" >>

ExternalScript(src) ==
    Node("script", src, Undefined, Undefined, Undefined, Undefined, <<>>)

TypedScript(type, body) ==
    Node("script", Undefined, type, Undefined, Undefined, Undefined, body)

Link(rel, as, href) == Node("link", Undefined, Undefined, rel, as, href, <<>>)

Plain(tag) == Node(tag, Undefined, Undefined, Undefined, Undefined, Undefined, <<>>)

DocNodes ==
    { ExternalScript(FrameworkUrl),
      ExternalScript(OwnUrl),
      InlineScript(<< "self.__next_f", ".push([1,\"...\"])" >>),
      InlineScript(<< "gtag('config')" >>),
      TypedScript(<<"application/ld+json">>,
                  << "{\"logo\":\"/", "_next/static/", "media/logo.png\"}" >>),
      TypedScript(<<"application/json">>,
                  << "{\"assetPrefix\":\"/", "_next/static/", "\"}" >>),
      TypedScript(<<"text/javascript">>, << "self.__next_f", "=[]" >>),
      TypedScript(<<"module">>, << "import('/", "_next/static/", "chunks/app.js')" >>),
      TypedScript(<< >>, << "window.", "__NEXT_DATA__", "={}" >>),
      Node("script", FrameworkUrl, <<"application/ld+json">>, Undefined, Undefined,
           Undefined, <<>>),
      Link(<<"preload">>, <<"script">>, FrameworkUrl),
      Link(<<"preload">>, <<"script">>, OwnUrl),
      Link(<<"preload">>, <<"font">>, << "/", "_next/static/", "media/font.woff2" >>),
      Link(<<"modulepreload">>, Undefined, FrameworkUrl),
      Link(<<"prefetch">>, <<"script">>, FrameworkUrl),
      Plain("comment"),
      Plain("div") }

NodeSeqs(n) == UNION { [1..k -> DocNodes] : k \in 0..n }

TransformInit ==
    /\ \E bp \in {PlainBody, LinkBody, HooksBody} :
          srcFiles = (PageSrc :> Readable(bp))
    /\ \E canonical \in BOOLEAN, head \in NodeSeqs(MaxNodes), body \in NodeSeqs(MaxNodes) :
          /\ Len(head) + Len(body) <= MaxNodes
          /\ htmlFiles = (IndexHtml :> OnDisk(Markup(canonical, head, body)))
    /\ pages = << [html |-> IndexHtml, sourceJsx |-> PageSrc] >>
    /\ CrawlUnused /\ HelperUnused /\ RunAt("analyze") /\ CpUnused

TransformNext ==
    \/ AnalyzeStart
    \/ CrawlReturnFalse
    \/ AnalyzeFinish
    \/ StartProcessing
    \/ \E k \in 1..MaxPages :
          TaskRead(k) \/ TaskMkdir(k) \/ TaskMinify(k) \/ TaskWrite(k) \/ TaskStat(k)
    \/ GenerateOutputResolve
    \/ WriteSpaRouterFile
    \/ CalculateStats
    \/ RunAgain

SpecTransform == TransformInit /\ [][TransformNext]_vars

(***************************************************************************)
(* SpecRun: dehydrate() on a batch of up to MaxPages pages.  Every page    *)
(* has its own entry file, which imports nothing, and its own document;    *)
(* a source file or a document may be unreadable, a document read-only.    *)
(***************************************************************************)
Routes == << "index", "about", "blog", "docs" >>

\* the entry file findSourceForHtml finds for a route
RouteSrc(i) ==
    IF Routes[i] = "index"
    THEN File(routesDir, "page", ".tsx")
    ELSE File(routesDir \o << Routes[i] >>, "page", ".tsx")
RouteHtml(i) == File(htmlDir, Routes[i], ".html")

RunDocs ==
    { Markup(FALSE, << Link(<<"preload">>, <<"script">>, FrameworkUrl) >>,
                    << Plain("div"), ExternalScript(FrameworkUrl) >>),
      Markup(FALSE, << >>, << Plain("div"), ExternalScript(OwnUrl) >>) }

RunInit ==
    /\ \E n \in 1..MaxPages :
          /\ n <= Len(Routes)
          /\ srcFiles \in [ {RouteSrc(i) : i \in 1..n} ->
                              {Readable(PlainBody), Readable(LinkBody), Unreadable} ]
          /\ htmlFiles \in [ {RouteHtml(i) : i \in 1..n} ->
                               [ok : BOOLEAN, rw : BOOLEAN, markup : RunDocs] ]
          /\ pages = [i \in 1..n |-> [html |-> RouteHtml(i), sourceJsx |-> RouteSrc(i)]]
    /\ CrawlUnused /\ HelperUnused /\ RunAt("analyze") /\ CpUnused

RunNext ==
    \/ AnalyzeStart
    \/ AnalyzeThrow
    \/ CrawlReturnFalse
    \/ AnalyzeFinish
    \/ StartProcessing
    \/ \E k \in 1..MaxPages :
          \/ TaskRead(k) \/ TaskMkdir(k) \/ TaskMinify(k)
          \/ TaskWrite(k) \/ TaskWriteFail(k) \/ TaskStat(k)
    \/ GenerateOutputResolve
    \/ GenerateOutputReject
    \/ WriteSpaRouterFile
    \/ CalculateStats

SpecRun == RunInit /\ [][RunNext]_vars

(***************************************************************************)
(* SpecFind: dehydrate() from the search for pages on.  The export holds   *)
(* index.html, about.html or both, each as the build wrote it; the routes  *)
(* directory holds any of the eight entry-source candidates of the two.    *)
(***************************************************************************)
AboutHtml == File(htmlDir, "about", ".html")

EntryCandidates ==
    { sourceCandidates(Relative(h))[i] : h \in {IndexHtml, AboutHtml}, i \in 1..4 }

FindInit ==
    /\ \E present \in SUBSET EntryCandidates, body \in {PlainBody, LinkBody} :
          srcFiles = [p \in present |-> Readable(body)]
    /\ \E docs \in (SUBSET {IndexHtml, AboutHtml}) \ {{}} :
          htmlFiles = [h \in docs |-> OnDisk(BuiltDoc)]
    /\ pages = <<>>
    /\ CrawlUnused /\ HelperUnused /\ RunAt("find") /\ CpUnused

FindNext ==
    \/ FindPages
    \/ FindThrow
    \/ AnalyzeStart
    \/ CrawlReturnFalse
    \/ AnalyzeFinish
    \/ StartProcessing
    \/ \E k \in 1..MaxPages :
          TaskRead(k) \/ TaskMkdir(k) \/ TaskMinify(k) \/ TaskWrite(k) \/ TaskStat(k)
    \/ GenerateOutputResolve
    \/ WriteSpaRouterFile
    \/ CalculateStats

SpecFind == FindInit /\ [][FindNext]_vars

(***************************************************************************)
(* SpecTwice: two pages, index and about, analysed and processed in one    *)
(* run and again in a second run, with or without an edit of one module    *)
(* in between.  Both entries may import the component A, which may import  *)
(* the index entry back.                                                   *)
(***************************************************************************)
AboutSrc == File(routesDir, "about", ".tsx")

TwiceInit ==
    /\ \E bi \in {PlainBody, LinkBody},
          ii, ia \in {<< >>, << <<".", "A">> >>},
          ba \in {PlainBody, EventsBody, LinkBody},
          ja \in {<< >>, << <<".", "page">> >>} :
          srcFiles = (PageSrc :> Readable(SourceText(ii, bi)))
                     @@ (AboutSrc :> Readable(SourceText(ia, PlainBody)))
                     @@ (CompA :> Readable(SourceText(ja, ba)))
    /\ htmlFiles = (IndexHtml :> OnDisk(BuiltDoc)) @@ (AboutHtml :> OnDisk(BuiltDoc))
    /\ pages \in { << [html |-> IndexHtml, sourceJsx |-> PageSrc],
                      [html |-> AboutHtml, sourceJsx |-> AboutSrc] >>,
                   << [html |-> AboutHtml, sourceJsx |-> AboutSrc],
                      [html |-> IndexHtml, sourceJsx |-> PageSrc] >> }
    /\ CrawlUnused /\ HelperUnused /\ RunAt("analyze") /\ CpUnused

TwiceNext ==
    \/ AnalyzeStart
    \/ CrawlRecurse
    \/ CrawlReturnTrue
    \/ CrawlContinue
    \/ CrawlReturnFalse
    \/ AnalyzeFinish
    \/ StartProcessing
    \/ \E k \in 1..MaxPages :
          TaskRead(k) \/ TaskMkdir(k) \/ TaskMinify(k) \/ TaskWrite(k) \/ TaskStat(k)
    \/ GenerateOutputResolve
    \/ WriteSpaRouterFile
    \/ CalculateStats
    \/ RunAgain
    \/ EditAndRunAgain

SpecTwice == TwiceInit /\ [][TwiceNext]_vars

(***************************************************************************)
(* SpecStats: calculateStats on any list of up to MaxPages records.        *)
(***************************************************************************)
ProcessedPages ==
    [analysis        : [absolutePath   : {IndexHtml},
                        classification : PageClassification,
                        indicators     : {NoArgs.indicators},
                        originalSize   : 0..MaxCount],
     newSize         : 0..MaxCount,
     scriptsRemoved  : 0..MaxCount,
     preloadsRemoved : 0..MaxCount,
     routerInjected  : BOOLEAN]

StatsInit ==
    /\ \E n \in 0..MaxPages : processedPages \in [1..n -> ProcessedPages]
    /\ phase = "stats"
    /\ analyses = <<>> /\ tasks = <<>> /\ thrown = "none" /\ run = 1 /\ stats = NoStats
    /\ FsUnused /\ CrawlUnused /\ HelperUnused /\ CpUnused

StatsNext == CalculateStats

SpecStats == StatsInit /\ [][StatsNext]_vars

(***************************************************************************)
(* SpecResolve: the crawl of a page whose entry has one import, over every *)
(* set of files the import can resolve to: the eight candidates of         *)
(* src/app/A and two candidates of src/A.                                  *)
(***************************************************************************)
ResolveSpecifiers == { <<".", "A">>, <<"@", "A">>, <<"@", "app", "A">>, <<"..", "A">> }

ResolveTargets ==
    { File(routesDir, "A", FILE_EXTENSIONS[i]) : i \in DOMAIN FILE_EXTENSIONS }
    \cup { File(routesDir \o <<"A">>, "index", FILE_EXTENSIONS[i]) : i \in DOMAIN FILE_EXTENSIONS }
    \cup { File(sourceRootDir, "A", ".ts"), File(sourceRootDir \o <<"A">>, "index", ".tsx") }

ResolveInit ==
    /\ \E specifier \in ResolveSpecifiers, present \in SUBSET ResolveTargets :
          srcFiles = (PageSrc :> Readable(SourceText(<< specifier >>, PlainBody)))
                     @@ [path \in present |-> Readable(PlainBody)]
    /\ htmlFiles = (IndexHtml :> OnDisk(BuiltDoc))
    /\ pages = << [html |-> IndexHtml, sourceJsx |-> PageSrc] >>
    /\ CrawlUnused /\ HelperUnused /\ RunAt("analyze") /\ CpUnused

ResolveNext ==
    \/ AnalyzeStart
    \/ CrawlSkipUnresolved
    \/ CrawlRecurse
    \/ CrawlContinue
    \/ CrawlReturnFalse
    \/ AnalyzeFinish

SpecResolve == ResolveInit /\ [][ResolveNext]_vars

(***************************************************************************)
(* SpecHandlers: the analysis of a page one of whose modules, the entry or *)
(* the component it imports, holds one handler attribute of the catalog,   *)
(* at the start of a line or inside it.                                    *)
(***************************************************************************)
HandlersInit ==
    /\ \E i \in DOMAIN EVENT_HANDLER_PROPS, pre \in {"nl", "sp"}, inEntry \in BOOLEAN :
          LET word    == CHOOSE w \in EVENT_HANDLER_PROPS[i].words : TRUE
              handler == << Code("nl", "<form"), Code(pre, word) >>
          IN  srcFiles =
                 (PageSrc :> Readable(SourceText(<< <<".", "A">> >>,
                                 IF inEntry THEN handler ELSE PlainBody)))
                 @@ (CompA :> Readable(IF inEntry THEN PlainBody ELSE handler))
    /\ htmlFiles = (IndexHtml :> OnDisk(BuiltDoc))
    /\ pages = << [html |-> IndexHtml, sourceJsx |-> PageSrc] >>
    /\ CrawlUnused /\ HelperUnused /\ RunAt("analyze") /\ CpUnused

HandlersNext ==
    \/ AnalyzeStart
    \/ CrawlRecurse
    \/ CrawlReturnTrue
    \/ CrawlContinue
    \/ CrawlReturnFalse
    \/ AnalyzeFinish

SpecHandlers == HandlersInit /\ [][HandlersNext]_vars

(***************************************************************************)
(* SpecPhases: a run from page discovery on, over documents and entry      *)
(* files that may be missing, unreadable or unwritable.                    *)
(***************************************************************************)
PhasesInit ==
    /\ \E n \in 1..MaxPages :
          /\ n <= Len(Routes)
          /\ \E present \in SUBSET (1..n) :
                srcFiles \in [ {RouteSrc(i) : i \in present} ->
                                 {Readable(PlainBody), Readable(LinkBody), Unreadable} ]
          /\ htmlFiles \in [ {RouteHtml(i) : i \in 1..n} ->
                               [ok : BOOLEAN, rw : BOOLEAN, markup : RunDocs] ]
    /\ pages = << >>
    /\ CrawlUnused /\ HelperUnused /\ RunAt("find") /\ CpUnused

PhasesNext ==
    \/ FindPages
    \/ FindThrow
    \/ RunNext

SpecPhases == PhasesInit /\ [][PhasesNext]_vars

(***************************************************************************)
(* SpecHelper: one document with the navigation helper, its links, the     *)
(* modifier keys the user holds, and every order of clicks, history        *)
(* traversals, responses, rejections and prefetches.                       *)
(***************************************************************************)
LinkTo(url) == Anchor(url, << "/", url.path >>, FALSE, "", << >>)

AnchorKinds ==
    { LinkTo(UrlA),
      LinkTo(UrlHtml),
      LinkTo(Url("https://other.example", "about", "")),
      Anchor(Home, << "#", "top" >>, FALSE, "", << >>),
      Anchor(UrlA, << "/", "about" >>, TRUE, "", << >>),
      Anchor(UrlA, << "/", "about" >>, FALSE, "_blank", << >>),
      Anchor(UrlA, << "/", "about" >>, FALSE, "_self", << >>),
      Anchor(UrlA, << "/", "about" >>, FALSE, "", << "external" >>),
      Anchor(UrlA, << "/", "about" >>, FALSE, "", << "noopener", "external" >>),
      Anchor(UrlA, << "/", "about" >>, FALSE, "", << "noopener" >>),
      LinkTo(Url(Origin, "report", "pdf")),
      LinkTo(Url(Origin, "report", "PDF")),
      LinkTo(Url(Origin, "bundle", "Zip")),
      LinkTo(Url(Origin, "clip", "wav")),
      Anchor(NoUrl, << >>, FALSE, "", << >>) }

Modifiers == { "ctrlKey", "metaKey", "shiftKey", "altKey" }

HelperInit ==
    /\ \/ links = { LinkTo(UrlA), LinkTo(UrlB) } /\ keys = {}
       \/ /\ \E a \in AnchorKinds : links = { a }
          /\ \E k \in Modifiers : keys \in { {}, { k } }
    /\ click = [target |-> NoAnchor, defaultPrevented |-> FALSE]
    /\ cache = [u \in Urls |-> NoEntry]
    /\ currentController = 0
    /\ navs = << >>
    /\ observer = [started |-> FALSE, targets |-> {}]
    /\ prefetches = {}
    /\ shown = Body(Home, TRUE)
    /\ rendered = << >>
    /\ history = << >>
    /\ style = ""
    /\ location = NoUrl
    /\ FsUnused /\ CrawlUnused /\ RunAt("idle") /\ CpUnused

HelperNext ==
    \/ HandleClick
    \/ HandlePopState
    \/ \E n \in 1..MaxNavs : ResponseArrives(n)
    \/ \E n \in 1..MaxNavs : TextArrives(n)
    \/ \E n \in 1..MaxNavs : FetchRejects(n)
    \/ \E n \in 1..MaxNavs : AbortRejects(n)
    \/ IdleCallback
    \/ \E a \in AnchorKinds \cup { LinkTo(UrlB) } : Intersecting(a)
    \/ \E url \in Urls : PrefetchArrives(url)
    \/ \E url \in Urls : PrefetchRejects(url)

SpecHelper == HelperInit /\ [][HelperNext]_vars

(***************************************************************************)
(* Properties.                                                             *)
(***************************************************************************)

\* ---- classifyPage ----------------------------------------------------

AnyInteractivity(a) ==
    \/ a.hasClientCode
    \/ a.indicators.hasEventHandlers
    \/ a.indicators.usesReactHooks
    \/ a.indicators.hasClientComponents

\* C1: classifyPage is a total decision table with fixed precedence: the
\* result is one of the three classes; it is INTERACTIVE exactly when the
\* closure flag or one of the three entry interactivity flags is set,
\* ROUTING_ONLY exactly when none of them is set and hasClientSideRouting is,
\* and PURE_STATIC exactly when no flag is set.
C1_DecisionTable ==
    cpResult # "none" =>
        /\ cpResult \in PageClassification
        /\ (cpResult = INTERACTIVE) <=> AnyInteractivity(cpArgs)
        /\ (cpResult = ROUTING_ONLY) <=>
              (~AnyInteractivity(cpArgs) /\ cpArgs.indicators.hasClientSideRouting)
        /\ (cpResult = PURE_STATIC) <=>
              (~AnyInteractivity(cpArgs) /\ ~cpArgs.indicators.hasClientSideRouting)

\* An entry-level interactivity flag wins over the navigation flag.
C1_Witness ==
    /\ cpResult = INTERACTIVE
    /\ cpArgs.indicators.hasClientSideRouting
    /\ cpArgs.indicators.usesReactHooks
    /\ ~cpArgs.hasClientCode

\* ---- the dependency closure ------------------------------------------

\* The local import statements of the file at path, as (path, position) pairs.
ImportEdges(path) ==
    IF existsSync(path) /\ srcFiles[path].ok
    THEN {<<path, i>> : i \in DOMAIN extractLocalImports(srcFiles[path].text)}
    ELSE {}

\* The file an import statement leads to: null unless the specifier resolves
\* to an existing, readable file.
Target(edge) ==
    LET t == resolveImportPath(dirname(edge[1]),
                 extractLocalImports(srcFiles[edge[1]].text)[edge[2]], sourceRootDir)
    IN  IF t # null /\ existsSync(t) /\ srcFiles[t].ok THEN t ELSE null

RECURSIVE ReachableFrom(_, _)
\* The files reachable from the set S through import statements outside `without`.
ReachableFrom(S, without) ==
    LET T == S \cup ({ Target(e) :
                         e \in (UNION {ImportEdges(p) : p \in S}) \ without } \ {null})
    IN  IF T = S THEN S ELSE ReachableFrom(T, without)

\* The dependency closure of an entry file, the import statements of
\* `without` left out.
Closure(entry, without) == ReachableFrom({entry}, without)

HasIndicator(path) ==
    \/ detectEventHandlers(srcFiles[path].text)
    \/ detectReactHooks(srcFiles[path].text)
    \/ detectClientComponents(srcFiles[path].text)

ClosureHasIndicator(entry, without) ==
    \E p \in Closure(entry, without) : HasIndicator(p)

\* hasAnyClientCode has returned to analyzeGeneratedPage.
CrawlReturned == current.pc = "crawl" /\ stack = <<>> /\ ret # "none"

EntryOf(k) == pages[k].sourceJsx

\* What a module's text contains, wherever on a line it stands.
HandlerAttributes ==
    { "onClick=", "onChange=", "onSubmit=", "onKeyDown=", "onKeyUp=", "onKeyPress=",
      "onFocus=", "onBlur=", "onInput=", "onMouseOver=", "onMouseOut=", "onMouseDown=",
      "onMouseUp=", "onTouchStart=", "onTouchEnd=", "onTouchMove=", "onDragStart=",
      "onDragEnd=", "onDrop=" }

HookCalls ==
    { "useState", "useEffect", "useCallback", "useMemo", "useRef", "useContext",
      "useReducer", "useLayoutEffect", "useImperativeHandle", "useDebugValue", "useId",
      "useSyncExternalStore", "useTransition", "useDeferredValue" }

ClientMarkers == { "\"use client\"", "'use client'" }

ContainsSignal(path) ==
    \E i \in DOMAIN srcFiles[path].text :
        /\ srcFiles[path].text[i].kind = "code"
        /\ srcFiles[path].text[i].word \in HandlerAttributes \cup HookCalls \cup ClientMarkers

ClosureContainsSignal(entry) == \E p \in Closure(entry, {}) : ContainsSignal(p)

\* C2: hasAnyClientCode(entry) returns true if and only if the entry or a
\* module reachable from it through resolvable, readable local imports
\* contains an event handler, a stateful-hook call or a client-module marker;
\* and a page with such a module in its closure is classified INTERACTIVE.
C2_ClosureAggregation ==
    /\ CrawlReturned =>
          ((ret = "true") <=> ClosureContainsSignal(EntryOf(current.page)))
    /\ \A k \in DOMAIN analyses :
          ClosureContainsSignal(EntryOf(k)) => analyses[k].classification = INTERACTIVE

\* An import statement closes a cycle when it lies on an import cycle and the
\* file it leads to is reachable from the entry without it: removing it
\* leaves every module of the closure reachable.
CycleClosing(entry) ==
    { e \in UNION {ImportEdges(p) : p \in Closure(entry, {})} :
        /\ Target(e) # null
        /\ e[1] \in ReachableFrom({Target(e)}, {})
        /\ Target(e) \in Closure(entry, {e}) }

MaxOf(S) == CHOOSE x \in S : \A y \in S : y <= x

LongestImports ==
    MaxOf({0} \cup {Cardinality(ImportEdges(p)) : p \in DOMAIN srcFiles})

\* what the import loop of a frame still has to do
FrameWork(f) == 2 * (Len(f.imports) + 1 - f.i) + 2

RECURSIVE StackWork(_)
StackWork(stk) ==
    IF stk = <<>> THEN 0 ELSE FrameWork(Head(stk)) + StackWork(Tail(stk))

VisitWork == 2 * LongestImports + 5

PageWork == Cardinality(DOMAIN srcFiles) * VisitWork + 2

\* The work left in the analysis phase: pages still to analyse, files the
\* crawl in progress has not visited, imports the active calls have not yet
\* looked at, and the call in progress.  It is a natural number.
CrawlWork ==
    PageWork * (2 * (Len(pages) - Len(analyses)) - (IF current.pc = "crawl" THEN 1 ELSE 0))
    + VisitWork * Cardinality(DOMAIN srcFiles \ visited)
    + StackWork(stack)
    + (IF ret = "none" THEN 1 ELSE 0)

\* C3: on every import graph, cyclic ones included, the crawl of a page
\* terminates (every step of the analysis strictly decreases the work left,
\* so no run takes infinitely many steps), and the flag it returns is the
\* flag of the same graph with a cycle-closing import removed.
C3_CycleSafety ==
    /\ [][CrawlWork' < CrawlWork]_vars
    /\ [](CrawlReturned =>
            \A e \in CycleClosing(EntryOf(current.page)) :
                (ret = "true") <=> ClosureHasIndicator(EntryOf(current.page), {e}))

\* A crawl has returned from a graph in which A and B import each other.
C3_Witness ==
    /\ CrawlReturned
    /\ {CompA, CompB} \subseteq visited
    /\ \E e \in ImportEdges(CompA), f \in ImportEdges(CompB) :
          /\ Target(e) = CompB
          /\ Target(f) = CompA
          /\ (e \in CycleClosing(PageSrc) \/ f \in CycleClosing(PageSrc))

\* ---- the transformation of a page -----------------------------------

\* The task of page k has written its document back.
Written(k) == k \in DOMAIN tasks /\ tasks[k].pc \in {"stat", "fulfilled"}

\* the document the task read, and the document now at the page's path
In(k) == tasks[k].content

Out(k) == htmlFiles[PathOf(k)].markup

NonInteractive(k) == analyses[k].classification \in {PURE_STATIC, ROUTING_ONLY}

FrameworkMarkers == { "_next/static/", "__NEXT_DATA__", "self.__next_f", "next/dist/" }

\* An attribute value or a script body holds a framework-runtime marker.
Matches(value) ==
    value # Undefined /\ \E j \in DOMAIN value : value[j] \in FrameworkMarkers

IsScript(n) == n.tag = "script"

IsHelper(n) == n = InlineScript(SPA_ROUTER_SCRIPT)

Count(seq, P(_)) == Len(SelectSeq(seq, P))

HelperCount(markup) == Count(AllNodes(markup), IsHelper)

\* C4: for a page classified INTERACTIVE the document written back to the
\* page's path is byte-for-byte the document that was there before the run.
C4_InteractiveUntouched ==
    \A k \in DOMAIN tasks :
        (Written(k) /\ analyses[k].classification = INTERACTIVE) => Out(k) = In(k)

\* a script or link element that matches a framework-runtime pattern by
\* its URL or by its inline content
FrameworkElement(n) ==
    \/ IsScript(n) /\ (Matches(n.src) \/ Matches(n.body))
    \/ /\ n.tag = "link"
       /\ n.rel \in {<<"preload">>, <<"modulepreload">>, <<"prefetch">>}
       /\ Matches(n.href)

\* C5 as stated: the output of a PURE_STATIC or ROUTING_ONLY page holds no
\* script element and no preload, modulepreload or prefetch link element
\* whose URL or inline content matches a framework-runtime pattern.
C5_NoFrameworkElement ==
    \A k \in DOMAIN tasks :
        (Written(k) /\ NonInteractive(k)) =>
            \A i \in DOMAIN AllNodes(Out(k)) : ~FrameworkElement(AllNodes(Out(k))[i])

\* the elements the four passes look at: an external script; an inline
\* script that is executable (no type, text/javascript or module); a script
\* preload, a modulepreload or a script prefetch
Strippable(n) ==
    \/ IsScript(n) /\ n.src # Undefined /\ Matches(n.src)
    \/ /\ IsScript(n) /\ n.src = Undefined
       /\ n.type \in {Undefined, <<>>, <<"text/javascript">>, <<"module">>}
       /\ Matches(n.body)
    \/ /\ n.tag = "link"
       /\ \/ n.rel = <<"preload">> /\ n.as = <<"script">>
          \/ n.rel = <<"modulepreload">>
          \/ n.rel = <<"prefetch">> /\ n.as = <<"script">>
       /\ Matches(n.href)

\* C5, amended: the output of a PURE_STATIC or ROUTING_ONLY page holds no
\* external script whose src matches a framework-runtime pattern, no
\* executable inline script (no type, text/javascript or module) whose body
\* matches, and no script preload, modulepreload or script prefetch link
\* whose href matches; data scripts (application/ld+json and other types)
\* and preloads of other resources stay.
C5_StrippingCompleteness ==
    \A k \in DOMAIN tasks :
        (Written(k) /\ NonInteractive(k)) =>
            \A i \in DOMAIN AllNodes(Out(k)) : ~Strippable(AllNodes(Out(k))[i])

\* A written PURE_STATIC page whose document had a framework script in the
\* head and a framework preload in the body, both counted as removed.
C5_Witness ==
    /\ Written(1)
    /\ analyses[1].classification = PURE_STATIC
    /\ In(1).head = << ExternalScript(FrameworkUrl) >>
    /\ In(1).body = << Link(<<"preload">>, <<"script">>, FrameworkUrl) >>
    /\ tasks[1].result.scriptsRemoved = 1
    /\ tasks[1].result.preloadsRemoved = 1

C7_HelperLast ==
    \A k \in DOMAIN tasks :
        (Written(k) /\ analyses[k].classification = ROUTING_ONLY) =>
            /\ HelperCount(Out(k)) = 1
            /\ Out(k).body # <<>>
            /\ IsHelper(Out(k).body[Len(Out(k).body)])
            /\ \A i \in DOMAIN AllNodes(Out(k)) : ~Strippable(AllNodes(Out(k))[i])
            /\ ~Matches(SPA_ROUTER_SCRIPT)

IsLdJson(n) == IsScript(n) /\ n.src = Undefined /\ n.type = <<"application/ld+json">>

Injected(k) == IF tasks[k].result.routerInjected THEN 1 ELSE 0

\* C8: in a PURE_STATIC or ROUTING_ONLY page the application/ld+json inline
\* scripts of the head and of the body are in the output as they were, body
\* text included, whatever it matches; scriptsRemoved counts exactly the
\* scripts that are gone, so no such script is counted.
C8_StructuredData ==
    \A k \in DOMAIN tasks :
        (Written(k) /\ NonInteractive(k)) =>
            /\ SelectSeq(Out(k).head, IsLdJson) = SelectSeq(In(k).head, IsLdJson)
            /\ SelectSeq(Out(k).body, IsLdJson) = SelectSeq(In(k).body, IsLdJson)
            /\ tasks[k].result.scriptsRemoved + Count(AllNodes(Out(k)), IsScript)
                  = Count(AllNodes(In(k)), IsScript) + Injected(k)

\* A written page whose document had a structured-data script with a
\* framework URL in its text, next to a framework script that was removed.
C8_Witness ==
    /\ Written(1)
    /\ NonInteractive(1)
    /\ \E i \in DOMAIN In(1).body :
          IsLdJson(In(1).body[i]) /\ Matches(In(1).body[i].body)
    /\ tasks[1].result.scriptsRemoved = 1
    /\ Count(AllNodes(Out(1)), IsLdJson) = 1

\* a script or link element none of whose src, href and body matches
Unmatched(n) ==
    /\ n.tag \in {"script", "link"}
    /\ ~Matches(n.src) /\ ~Matches(n.href) /\ ~Matches(n.body)

\* C9: in a PURE_STATIC or ROUTING_ONLY page every script and link element
\* that matches no framework-runtime pattern is in the output, in the head
\* or in the body as before and in the same order; the only element added
\* is the appended helper.
C9_NonFrameworkIntact ==
    \A k \in DOMAIN tasks :
        (Written(k) /\ NonInteractive(k)) =>
            /\ SelectSeq(Out(k).head, Unmatched) = SelectSeq(In(k).head, Unmatched)
            /\ SelectSeq(Out(k).body, Unmatched) =
                   SelectSeq(In(k).body, Unmatched)
                   \o (IF tasks[k].result.routerInjected
                       THEN << InlineScript(SPA_ROUTER_SCRIPT) >> ELSE << >>)

\* A written page that kept its own script in the head while the framework
\* script after it was removed.
C9_Witness ==
    /\ Written(1)
    /\ NonInteractive(1)
    /\ In(1).head = << ExternalScript(OwnUrl), ExternalScript(FrameworkUrl) >>
    /\ Out(1).head = << ExternalScript(OwnUrl) >>


\* ---- the batch ------------------------------------------------------

\* Page k is one whose own analysis or transformation fails.
PageFails(k) ==
    \/ ~srcFiles[pages[k].sourceJsx].ok
    \/ ~htmlFiles[pages[k].html].ok
    \/ ~htmlFiles[pages[k].html].rw

\* C10: when dehydrate() reports a failure, every page that does not itself
\* fail has been analysed, transformed and written, and the run has returned
\* a record for it: the failure comes after the rest of the batch.
C10_ErrorIsolation ==
    phase = "failed" =>
        \A k \in DOMAIN pages :
            ~PageFails(k) =>
                /\ k \in DOMAIN analyses
                /\ k \in DOMAIN tasks /\ tasks[k].pc = "fulfilled"
                /\ \E j \in DOMAIN processedPages :
                      processedPages[j].analysis.absolutePath = pages[k].html

\* ---- failures inside the crawl --------------------------------------

\* The import the innermost call is at leads to no file that can be read.
ImportFails ==
    ~(Resolved # null /\ existsSync(Resolved) /\ srcFiles[Resolved].ok)

\* C11: an import that resolves to no existing file, or whose read fails,
\* only moves the loop of its importer on to the next import: the crawl is
\* not aborted and nothing is returned or visited because of it.  When the
\* crawl returns, its flag is the detectors' verdict over the modules that
\* do resolve and read, all of which have been visited if the flag is false,
\* and the page's classification is the one computed from them.
C11_ImportFailuresAbsorbed ==
    /\ [][(InLoop /\ ImportFails) =>
             /\ stack' = Advance(stack)
             /\ ret' = "none"
             /\ visited' = visited
             /\ current' = current
             /\ phase' = phase]_vars
    /\ [](CrawlReturned =>
             /\ (ret = "true") <=> ClosureHasIndicator(EntryOf(current.page), {})
             /\ (ret = "false") => Closure(EntryOf(current.page), {}) \subseteq visited)
    /\ [](\A k \in DOMAIN analyses :
             analyses[k].classification =
                classifyPage(detectIndicators(srcFiles[EntryOf(k)].text,
                                              htmlFiles[pages[k].html].markup),
                             ClosureHasIndicator(EntryOf(k), {})))

\* The entry's first import leads nowhere (no file, or an unreadable one),
\* its second import leads to a module with a signal, and the crawl has
\* returned true.
C11_Witness ==
    /\ CrawlReturned
    /\ ret = "true"
    /\ ~HasIndicator(PageSrc)
    /\ Cardinality(ImportEdges(PageSrc)) >= 2
    /\ Target(<<PageSrc, 1>>) = null
    /\ Target(<<PageSrc, 2>>) # null
    /\ HasIndicator(Target(<<PageSrc, 2>>))

\* ---- the page list -------------------------------------------------

\* a document none of whose entry-source candidates exists
NoEntrySource(htmlPath) ==
    \A i \in 1..4 : sourceCandidates(Relative(htmlPath))[i] \notin DOMAIN srcFiles

\* C12: a document none of whose entry-source candidates exists is not in
\* the page list, has no PageAnalysis, no task and no ProcessedPage record,
\* and its file stays as the build wrote it.
C12_MissingSourceExcluded ==
    \A h \in DOMAIN htmlFiles :
        NoEntrySource(h) =>
            /\ \A k \in DOMAIN pages : pages[k].html # h
            /\ \A k \in DOMAIN analyses : analyses[k].absolutePath # h
            /\ Len(tasks) <= Len(pages)
            /\ \A k \in DOMAIN processedPages : processedPages[k].analysis.absolutePath # h
            /\ htmlFiles[h] = OnDisk(BuiltDoc)

\* A run is over in which one document had no entry source and the other
\* was analysed, transformed and written.
C12_Witness ==
    /\ phase = "done"
    /\ \E h \in DOMAIN htmlFiles : NoEntrySource(h)
    /\ Len(processedPages) = 1
    /\ htmlFiles[processedPages[1].analysis.absolutePath] # OnDisk(BuiltDoc)

\* ---- the order of the records ---------------------------------------

\* C13: whatever the interleaving and completion order of the per-page
\* tasks, the list generateOutput resolves with has one record per analysis,
\* in the order of the analyses, which is the input page order; the i-th
\* record carries the i-th PageAnalysis and the results of the i-th task;
\* and stats.pages is that list.
C13_ResultOrder ==
    /\ \A i \in DOMAIN analyses : analyses[i].absolutePath = pages[i].html
    /\ processedPages # <<>> =>
          /\ Len(processedPages) = Len(analyses)
          /\ \A i \in DOMAIN processedPages :
                /\ processedPages[i].analysis = analyses[i]
                /\ processedPages[i].newSize = tasks[i].newSize
                /\ processedPages[i].scriptsRemoved = tasks[i].result.scriptsRemoved
    /\ phase = "done" => stats.pages = processedPages

\* A run over two pages of different classes has returned its statistics.
C13_Witness ==
    /\ phase = "done"
    /\ Len(stats.pages) = 2
    /\ stats.pages[1].analysis.absolutePath = RouteHtml(1)
    /\ stats.pages[2].analysis.absolutePath = RouteHtml(2)
    /\ stats.pages[1].analysis.classification = ROUTING_ONLY
    /\ stats.pages[2].analysis.classification = PURE_STATIC
    /\ stats.pages[1].scriptsRemoved # stats.pages[2].scriptsRemoved

\* ---- two analyses of a page ------------------------------------------

\* The module at path has had a signal added to it.
Edited(path) ==
    \E i \in DOMAIN srcFiles[path].text :
        /\ srcFiles[path].text[i].kind = "code"
        /\ srcFiles[path].text[i].word \in AddedSignals

\* the class the previous run gave the page that is k-th in this run
Before(k) == stats.pages[k].analysis.classification

\* The second run has analysed page k.
AnalysedAgain(k) == run = 2 /\ Len(stats.pages) = Len(pages) /\ k \in DOMAIN analyses

\* C14: after an event handler, a hook call or a client-module marker is
\* added to a module of a page's dependency closure, imports unchanged, the
\* page is INTERACTIVE; in particular it does not leave INTERACTIVE and
\* does not go from ROUTING_ONLY to PURE_STATIC.
C14_Monotonicity ==
    \A k \in DOMAIN analyses :
        (AnalysedAgain(k) /\ \E M \in Closure(EntryOf(k), {}) : Edited(M)) =>
            /\ analyses[k].classification = INTERACTIVE
            /\ Before(k) = INTERACTIVE => analyses[k].classification = INTERACTIVE
            /\ Before(k) = ROUTING_ONLY => analyses[k].classification # PURE_STATIC

\* the class of a page as a function of the source files alone: the entry
\* text and the texts of its dependency closure, with no HTML document
SourceClass(entry) ==
    classifyPage(detectIndicators(srcFiles[entry].text, Markup(TRUE, <<>>, <<>>)),
                 ClosureHasIndicator(entry, {}))

Unedited == \A path \in DOMAIN srcFiles : ~Edited(path)

\* C15: the classification of a page is a function of its entry file and
\* its dependency closure only: it is the same whatever HTML document,
\* other page or page order accompanies it, the same in a second run on
\* the same sources, and every crawl starts from an empty visited set.
C15_Deterministic ==
    /\ \A k \in DOMAIN analyses : analyses[k].classification = SourceClass(EntryOf(k))
    /\ \A k \in DOMAIN analyses :
          (AnalysedAgain(k) /\ Unedited) => analyses[k].classification = Before(k)
    /\ (current.pc = "crawl" /\ stack # <<>>) =>
          visited \subseteq Closure(EntryOf(current.page), {})

\* Second run on unchanged sources, over documents the first run rewrote;
\* both pages reach the plain component A, and neither is interactive.
C15_Witness ==
    /\ run = 2 /\ Unedited /\ Len(analyses) = 2
    /\ htmlFiles[IndexHtml].markup # BuiltDoc
    /\ CompA \in Closure(EntryOf(1), {}) \cap Closure(EntryOf(2), {})
    /\ analyses[1].classification # INTERACTIVE
    /\ analyses[2].classification # INTERACTIVE
    /\ analyses[1].indicators.scriptCount # analyses[2].indicators.scriptCount

\* ---- statistics -------------------------------------------------------

\* a numeric field of the k-th processed page
Field(name, k) ==
    CASE name = "originalSize"    -> processedPages[k].analysis.originalSize
      [] name = "newSize"         -> processedPages[k].newSize
      [] name = "scriptsRemoved"  -> processedPages[k].scriptsRemoved
      [] name = "preloadsRemoved" -> processedPages[k].preloadsRemoved

RECURSIVE SumTo(_, _)
\* the sum of a field over the first n processed pages
SumTo(name, n) == IF n = 0 THEN 0 ELSE SumTo(name, n - 1) + Field(name, n)

\* C16: calculateStats folds the page list: totalPages is its length, the
\* three per-class counts sum to totalPages, the four totals are the sums of
\* the per-page fields, pagesWithRouter counts the records with
\* routerInjected, and the input list is left as it was.
C16_PureFold ==
    /\ [](phase = "done" =>
          /\ stats.totalPages = Len(processedPages)
          /\ \A c \in PageClassification :
                stats.byClassification[c] =
                    Cardinality({k \in DOMAIN processedPages :
                                    processedPages[k].analysis.classification = c})
          /\ stats.byClassification[PURE_STATIC] + stats.byClassification[ROUTING_ONLY]
                + stats.byClassification[INTERACTIVE] = stats.totalPages
          /\ stats.totalOriginalSize    = SumTo("originalSize", Len(processedPages))
          /\ stats.totalNewSize         = SumTo("newSize", Len(processedPages))
          /\ stats.totalScriptsRemoved  = SumTo("scriptsRemoved", Len(processedPages))
          /\ stats.totalPreloadsRemoved = SumTo("preloadsRemoved", Len(processedPages))
          /\ stats.pagesWithRouter =
                Cardinality({k \in DOMAIN processedPages : processedPages[k].routerInjected})
          /\ stats.pages = processedPages)
    /\ [][phase = "stats" => processedPages' = processedPages]_vars

\* Two pages of different classes, one of them with the helper, and totals
\* to which both pages contribute.
C16_Witness ==
    /\ phase = "done"
    /\ Len(processedPages) = MaxPages
    /\ stats.pagesWithRouter = 1
    /\ stats.byClassification[ROUTING_ONLY] = 1
    /\ stats.byClassification[PURE_STATIC] = 1
    /\ stats.totalOriginalSize = 2
    /\ stats.totalNewSize = 1
    /\ stats.totalScriptsRemoved = 2

\* ---- import resolution ------------------------------------------------

\* the specifier the innermost call is at
ImportAt == Top.imports[Top.i]

\* the path the specifier names, before any extension: under the source
\* root for an alias, under the importing module's directory otherwise
NamedPath ==
    IF ImportAt[1] = "@"
    THEN join(<< "src" >>, Tail(ImportAt))
    ELSE join(Top.jsxPath.dir, ImportAt)

\* the eight candidates in the order of the claim
ResolutionOrder ==
    LET parent == SubSeq(NamedPath, 1, Len(NamedPath) - 1)
        last   == NamedPath[Len(NamedPath)]
    IN  << File(parent, last, ".tsx"), File(parent, last, ".ts"),
           File(parent, last, ".jsx"), File(parent, last, ".js"),
           File(NamedPath, "index", ".tsx"), File(NamedPath, "index", ".ts"),
           File(NamedPath, "index", ".jsx"), File(NamedPath, "index", ".js") >>

\* the places in the order at which a file exists
Hits == { i \in 1..8 : ResolutionOrder[i] \in DOMAIN srcFiles }

\* C17: an import is resolved under the source root when it starts with @/
\* and under the importer's directory otherwise; of path.tsx, path.ts,
\* path.jsx, path.js, path/index.tsx, path/index.ts, path/index.jsx,
\* path/index.js the first that exists is the module the crawl goes to, and
\* when none exists the import is skipped.
C17_ResolutionOrder ==
    [][InLoop =>
          IF Hits = {}
          THEN /\ Resolved = null
               /\ stack' = Advance(stack) /\ visited' = visited /\ ret' = ret
          ELSE LET first == CHOOSE i \in Hits : \A j \in Hits : i <= j
               IN  /\ Resolved = ResolutionOrder[first]
                   /\ visited' = visited \cup {ResolutionOrder[first]}]_vars

\* The crawl went to A.js although A/index.tsx exists, and to nothing else.
C17_Witness ==
    /\ File(routesDir, "A", ".js") \in visited
    /\ File(routesDir \o <<"A">>, "index", ".tsx") \in DOMAIN srcFiles
    /\ File(sourceRootDir, "A", ".ts") \in DOMAIN srcFiles
    /\ visited = {PageSrc, File(routesDir, "A", ".js")}

\* ---- one inspection per module ---------------------------------------

\* The step stays inside the crawl of one page.
InCrawl == current.pc = "crawl" /\ current'.pc = "crawl"

\* The step is the inspection of the module at path: it enters the visited
\* set, and either an indicator is found or its imports are expanded.
Inspects(path) ==
    /\ path \notin visited
    /\ visited' = visited \cup {path}
    /\ \/ ret' = "true" /\ stack' = stack
       \/ ret' = "none" /\ Len(stack') = Len(stack) + 1
                        /\ stack'[Len(stack')].jsxPath = path

\* The crawl arrives at a module that it can read.
ArrivesAt(path) ==
    /\ InLoop
    /\ Resolved = path
    /\ path \in DOMAIN srcFiles
    /\ srcFiles[path].ok

\* C18: in the crawl of a page each module is inspected and expanded at most
\* once: the visited set only grows, a module is inspected only when it is
\* not yet visited, no module is expanded twice, and an arrival at a visited
\* module yields false with nothing inspected or expanded.
C18_AtMostOnce ==
    /\ [][InCrawl => visited \subseteq visited']_vars
    /\ [][InCrawl /\ visited' # visited => \E path \in DOMAIN srcFiles : Inspects(path)]_vars
    /\ [][InCrawl /\ Len(stack') > Len(stack) =>
             \E path \in DOMAIN srcFiles : Inspects(path)]_vars
    /\ [][\A path \in visited : ArrivesAt(path) =>
             ret' = "false" /\ stack' = stack /\ visited' = visited]_vars
    /\ [](\A i, j \in DOMAIN stack : stack[i].jsxPath = stack[j].jsxPath => i = j)

\* The entry imports A and then B, B imports A: the crawl, inside B, has
\* arrived at A a second time and got false.
C18_Witness ==
    /\ current.pc = "crawl"
    /\ Len(stack) = 2
    /\ stack[1].imports[1] = <<".", "A">> /\ stack[1].i = 2
    /\ Top.jsxPath = CompB
    /\ Top.i <= Len(Top.imports)
    /\ Resolved = CompA /\ srcFiles[CompA].ok
    /\ CompA \in visited
    /\ ret = "false"

\* ---- short-circuit ----------------------------------------------------

\* A value true is on its way out of the crawl.
Hit == current.pc = "crawl" /\ ret = "true"

\* C19: when the inspection of a module finds an interactivity indicator
\* the call returns true at once; true is then handed up through every
\* enclosing call with nothing resolved, read or inspected on the way, and
\* the page comes out INTERACTIVE, so that exactly one visited module has
\* an indicator and modules imported after it stay unvisited.
C19_ShortCircuit ==
    /\ [][\A path \in DOMAIN srcFiles :
             (ArrivesAt(path) /\ path \notin visited /\ HasClientCode(srcFiles[path].text))
                 => ret' = "true" /\ stack' = stack /\ visited' = visited \cup {path}]_vars
    /\ [][Hit /\ stack # <<>> =>
             stack' = Pop(stack) /\ ret' = "true" /\ visited' = visited
             /\ current' = current]_vars
    /\ [][Hit /\ stack = <<>> =>
             /\ analyses' = Append(analyses, analyses'[Len(analyses')])
             /\ analyses'[Len(analyses')].classification = INTERACTIVE]_vars
    /\ [](Hit => Cardinality({path \in visited : HasIndicator(path)}) = 1)

\* The crawl has returned true, and a module the entry reaches through its
\* imports was never visited.
C19_Witness ==
    /\ Hit /\ stack = <<>>
    /\ ~HasIndicator(EntryOf(current.page))
    /\ \E path \in Closure(EntryOf(current.page), {}) : path \notin visited

\* ---- navigation signal -----------------------------------------------

UsesNavigation(path) == detectClientSideRouting(srcFiles[path].text)

\* C20: the navigation signal is the entry module's alone: a page with no
\* interactivity indicator in its closure is ROUTING_ONLY exactly when its
\* entry uses the navigation component and PURE_STATIC otherwise, whatever
\* the imported modules render, and a PURE_STATIC page gets no helper.
C20_NavigationEntryOnly ==
    \A k \in DOMAIN analyses :
        ~ClosureContainsSignal(EntryOf(k)) =>
            /\ analyses[k].classification = ROUTING_ONLY <=> UsesNavigation(EntryOf(k))
            /\ ~UsesNavigation(EntryOf(k)) => analyses[k].classification = PURE_STATIC
            /\ (Written(k) /\ ~UsesNavigation(EntryOf(k))) => HelperCount(Out(k)) = 0

\* A written page whose entry shows no navigation while the component it
\* imports renders Link: PURE_STATIC, no helper in its document.
C20_Witness ==
    \E k \in DOMAIN analyses :
        /\ ~ClosureContainsSignal(EntryOf(k))
        /\ ~UsesNavigation(EntryOf(k))
        /\ CompA \in Closure(EntryOf(k), {}) /\ UsesNavigation(CompA)
        /\ analyses[k].classification = PURE_STATIC
        /\ Written(k)
        /\ HelperCount(Out(k)) = 0
        /\ Out(k) # BuiltDoc

\* ---- inline scripts ---------------------------------------------------

\* The type of a script is absent, empty, text/javascript or module.
ExecutableType(n) ==
    n.type \in {Undefined, << >>, <<"text/javascript">>, <<"module">>}

Removed(k, n) == n \notin Elements(Out(k))

\* C21: in a non-interactive page an inline script is removed exactly when
\* its type is absent, empty, text/javascript or module and its body holds
\* a framework marker; an inline script of any other type stays even when
\* its body holds a marker; an external script whose src holds a marker is
\* removed whatever its type.
C21_InlineRule ==
    \A k \in DOMAIN tasks :
        (Written(k) /\ NonInteractive(k)) =>
            \A n \in Elements(In(k)) :
                n.tag = "script" =>
                    /\ n.src = Undefined =>
                          (Removed(k, n) <=> (ExecutableType(n) /\ Matches(n.body)))
                    /\ (n.src = Undefined /\ ~ExecutableType(n)) => ~Removed(k, n)
                    /\ (n.src # Undefined /\ Matches(n.src)) => Removed(k, n)

\* A written page that had a text/javascript framework script, now gone,
\* and a JSON data script with a marker in its body, still there.
C21_Witness ==
    /\ Written(1) /\ NonInteractive(1) /\ run = 1
    /\ \E n \in Elements(In(1)) :
          /\ n.tag = "script" /\ n.src = Undefined
          /\ n.type = <<"text/javascript">> /\ Matches(n.body) /\ Removed(1, n)
    /\ \E n \in Elements(In(1)) :
          /\ n.tag = "script" /\ n.src = Undefined
          /\ n.type = <<"application/json">> /\ Matches(n.body) /\ ~Removed(1, n)

\* A written page whose external script carried the type of structured
\* data and a framework src: removed.
C21_WitnessExternal ==
    /\ Written(1) /\ NonInteractive(1)
    /\ \E n \in Elements(In(1)) :
          /\ n.tag = "script" /\ n.src # Undefined /\ n.type = <<"application/ld+json">>
          /\ Removed(1, n)

\* ---- the two classifier variants --------------------------------------

\* No module of the page's closure imports its way back to itself.
Acyclic(entry) ==
    \A p \in Closure(entry, {}) :
        p \notin ReachableFrom({Target(e) : e \in ImportEdges(p)} \ {null}, {})

\* the class the entry-only variant gives page k, run on the same files
EntryOnlyClass(k) ==
    EntryOnly_classifyPage(
        EntryOnly_detectIndicators(srcFiles[EntryOf(k)].text, htmlFiles[pages[k].html].markup))

\* C22: on the same entry file and acyclic import graph, whenever the
\* entry-only variant says INTERACTIVE so does the closure-wide variant,
\* and the two agree when no imported module carries an indicator.
C22_NeverUnderClassifies ==
    \A k \in DOMAIN analyses :
        Acyclic(EntryOf(k)) =>
            /\ EntryOnlyClass(k) = INTERACTIVE => analyses[k].classification = INTERACTIVE
            /\ (\A p \in Closure(EntryOf(k), {}) \ {EntryOf(k)} : ~ContainsSignal(p)) =>
                  analyses[k].classification = EntryOnlyClass(k)

\* ---- handler catalog --------------------------------------------------

\* The text of the module holds a catalogued handler attribute, anywhere.
ContainsHandler(path) ==
    \E i \in DOMAIN srcFiles[path].text :
        /\ srcFiles[path].text[i].kind = "code"
        /\ srcFiles[path].text[i].word \in HandlerAttributes

\* C23: a catalogued handler attribute, wherever in a line it stands, sets
\* hasEventHandlers when it is in the entry file and makes the page
\* INTERACTIVE when it is in any module of the closure.
C23_CatalogCovered ==
    \A k \in DOMAIN analyses :
        /\ ContainsHandler(EntryOf(k)) => analyses[k].indicators.hasEventHandlers
        /\ (\E p \in Closure(EntryOf(k), {}) : ContainsHandler(p)) =>
              analyses[k].classification = INTERACTIVE


\* ---- reported indicators ----------------------------------------------

\* an interactivity flag of the entry file itself
EntryFlag(k) ==
    \/ analyses[k].indicators.hasEventHandlers
    \/ analyses[k].indicators.usesReactHooks
    \/ detectClientComponents(srcFiles[EntryOf(k)].text)

C24_WitnessEntry ==
    /\ analyses # << >>
    /\ analyses[1].indicators.usesReactHooks
    /\ ~detectClientComponents(srcFiles[EntryOf(1)].text)
    /\ analyses[1].indicators.hasClientComponents

\* ---- phase order ------------------------------------------------------

\* the steps from one phase of dehydrate to the next
PhaseOrder ==
    { <<"find", "analyze">>, <<"analyze", "process">>, <<"process", "router">>,
      <<"router", "stats">>, <<"stats", "done">> }

\* C25: discovery, analysis of all pages, transformation and aggregation
\* follow one another in that order; no document is rewritten before every
\* page is analysed, so every originalSize and indicator count is that of
\* the untransformed document; and when the analysis of a page throws no
\* document has been modified.
C25_PhaseOrder ==
    /\ [][phase' # phase => (<<phase, phase'>> \in PhaseOrder \/ phase' = "failed")]_vars
    /\ [][htmlFiles' # htmlFiles =>
             /\ phase = "process" \/ thrown = "Processing failed"
             /\ tasks # << >>
             /\ Len(analyses) = Len(pages)
             /\ analyses' = analyses]_vars
    /\ [][phase # "analyze" => analyses' = analyses]_vars
    /\ [](phase = "analyze" =>
             \A k \in DOMAIN analyses :
                LET doc == htmlFiles[pages[k].html].markup
                IN  /\ doc \in RunDocs
                    /\ analyses[k].originalSize = Size(doc)
                    /\ analyses[k].indicators.scriptCount = scriptCount(doc)
                    /\ analyses[k].indicators.preloadCount = preloadCount(doc))
    /\ [](thrown = "Page analysis failed" =>
             /\ tasks = << >>
             /\ \A h \in DOMAIN htmlFiles : htmlFiles[h].markup \in RunDocs)
    /\ [](phase \in {"stats", "done"} => Len(processedPages) = Len(pages))

\* The first page was analysed, the analysis of the second threw, and the
\* documents are as the build left them.
C25_Witness ==
    /\ thrown = "Page analysis failed"
    /\ Len(pages) = 2 /\ Len(analyses) = 1
    /\ \A h \in DOMAIN htmlFiles : htmlFiles[h].markup \in RunDocs

\* A run that went through every phase and rewrote both documents.
C25_WitnessDone ==
    /\ phase = "done" /\ Len(pages) = 2
    /\ \A h \in DOMAIN htmlFiles : htmlFiles[h].markup \notin RunDocs

\* ---- second run on the output ----------------------------------------

\* the script elements of a document, as a set
ScriptsOf(markup) == { n \in Elements(markup) : n.tag = "script" }

\* Page k was written by a second run, which read what the first run wrote.
Rewritten(k) == run = 2 /\ Written(k) /\ NonInteractive(k)

\* C26: transforming the output of a previous transformation of the same
\* class removes no script and no preload and leaves the same set of
\* script elements, with exactly one helper script for a ROUTING_ONLY page.
C26_Idempotent ==
    \A k \in DOMAIN tasks :
        Rewritten(k) =>
            /\ tasks[k].result.scriptsRemoved = 0
            /\ tasks[k].result.preloadsRemoved = 0
            /\ ScriptsOf(Out(k)) = ScriptsOf(In(k))
            /\ analyses[k].classification = ROUTING_ONLY => HelperCount(Out(k)) = 1

\* ---- navigation helper ------------------------------------------------

\* The fetch of navigate call n has not settled.
InFlight(n) == navs[n].pc \in { "fetch", "text" }

\* ... and its signal has not been aborted.
Unaborted(n) == InFlight(n) /\ ~navs[n].aborted

AtMostOneUnaborted == Cardinality({ n \in DOMAIN navs : Unaborted(n) }) <= 1

ControllerIsTheUnaborted == \A n \in DOMAIN navs : Unaborted(n) => currentController = n

AppliedInStartOrder ==
    \A i, j \in DOMAIN rendered : i < j => rendered[i] < rendered[j]

\* C27: after any sequence of navigate calls and any order of completions,
\* at most one navigation fetch is un-aborted, currentController refers to
\* it while it is in flight, and no navigation's content is applied after
\* that of a navigation started later.
C27_LatestWins ==
    /\ AtMostOneUnaborted
    /\ ControllerIsTheUnaborted
    /\ AppliedInStartOrder

\* the last click was intercepted: event.preventDefault() was called
Intercepted == click.defaultPrevented

SameOriginWithHref(a) == a # NoAnchor /\ a.href # NoUrl /\ a.href.origin = Origin

\* the anchors the helper must leave to the browser
LeftToBrowser(a) ==
    \/ a.href.origin # Origin
    \/ a.attr # << >> /\ a.attr[1] = "#"
    \/ a.download
    \/ a.target = "_blank"
    \/ \E i \in DOMAIN a.rel : a.rel[i] = "external"
    \/ LowerCase(a.href.ext) \in NON_HTML_EXTENSIONS

Interceptable(a) == SameOriginWithHref(a) /\ keys = {} /\ ~LeftToBrowser(a)

\* C28: a click is intercepted, and navigate called with pushState, only
\* for a same-origin anchor with an href, clicked with no modifier key
\* held, that is not hash-only, download, target _blank, rel external or a
\* listed non-HTML resource; every other click keeps the default behaviour
\* and starts no navigation.
C28_InterceptionRule ==
    /\ Intercepted => /\ Interceptable(click.target)
                      /\ \E n \in DOMAIN navs :
                            navs[n].url = click.target.href /\ navs[n].pushState
    /\ \A n \in DOMAIN navs :
          navs[n].pushState =>
              \E a \in links : a.href = navs[n].url /\ Interceptable(a)

C28_Witness ==
    /\ Intercepted
    /\ \E n \in DOMAIN navs : navs[n].url = click.target.href /\ navs[n].pushState

\* a click on a link the helper must not take, left to the browser
C28_WitnessDefault ==
    /\ click.target # NoAnchor /\ ~Intercepted
    /\ keys = {} /\ SameOriginWithHref(click.target) /\ LeftToBrowser(click.target)

\* a click on a link the helper would take, with a modifier key held
C28_WitnessModifier ==
    /\ click.target # NoAnchor /\ ~Intercepted
    /\ keys # {} /\ SameOriginWithHref(click.target) /\ ~LeftToBrowser(click.target)

\* This step settles the fetch of navigate call n with outcome pc.
Settles(n, pc) ==
    /\ n \in DOMAIN navs /\ InFlight(n)
    /\ n \in DOMAIN navs' /\ navs'[n].pc = pc

PageKept == shown' = shown /\ rendered' = rendered /\ history' = history

\* C29: a navigation whose fetch rejects or comes back non-ok, not by an
\* abort, loads the target url in full, changes neither the page nor the
\* history and stores nothing in the cache; an aborted one changes neither
\* the page nor the location; every settling clears the loading style.
C29_FailureHandling ==
    [][\A n \in 1..MaxNavs :
          /\ Settles(n, "failed") =>
                location' = navs[n].url /\ PageKept /\ cache' = cache
          /\ Settles(n, "aborted") =>
                location' = location /\ PageKept /\ cache' = cache
          /\ (\E pc \in { "failed", "aborted", "applied" } : Settles(n, pc)) =>
                style' = ""]_vars

\* a navigation failed with the request still wanted, and the browser went
\* to its url
C29_Witness ==
    \E n \in DOMAIN navs :
        /\ navs[n].pc = "failed" /\ ~navs[n].aborted
        /\ location = navs[n].url /\ style = ""
        /\ \A i \in DOMAIN rendered : rendered[i] # n

\* a navigation was aborted and settled while the page stayed
C29_WitnessAborted ==
    \E n \in DOMAIN navs : navs[n].pc = "aborted" /\ Alive /\ style = ""

CacheHoldsOkBodies ==
    \A url \in DOMAIN cache : cache[url] # NoEntry => cache[url] = Body(url, TRUE)

RendersOkBodies == shown.ok

\* C30: every entry of the cache is the body of a response with ok status
\* for its url, whether a navigation or the idle-time prefetch stored it,
\* and what navigate puts on the page is never the body of a failed
\* response.
C30_CacheInvariant == CacheHoldsOkBodies /\ RendersOkBodies

=============================================================================
